---- MODULE Spec2Model ----
(***************************************************************************)
(* A model of openllmtelemetry's interaction pipeline: the guardrail       *)
(* client (guardrails/client.py, secure.py), the generic orchestrator      *)
(* (guardrails/handlers.py: sync_wrapper), the Bedrock invoke_model        *)
(* wrapper (instrumentation/bedrock) and the streaming generators of the   *)
(* OpenAI and Watsonx adapters.                                            *)
(*                                                                         *)
(* Three specifications share the module:                                  *)
(*   Spec        one interaction through sync_wrapper or through the       *)
(*               Bedrock wrapper, step by step;                            *)
(*   ClientSpec  direct calls of eval_prompt / eval_response / eval_chunk; *)
(*   StreamSpec  a consumer draining one of the streaming generators.      *)
(***************************************************************************)
EXTENDS Naturals, Sequences, FiniteSets, TLC

VARIABLES
    api,        \* the GuardrailsApi instance handed to the wrappers (or none)
    env,        \* the process environment variables the code reads
    lastEval,   \* outcome of the most recent guardrail client call
    cfg,        \* the arguments of the interaction (wrapper, callbacks, mode)
    pc,         \* position of the interaction inside the wrapper
    spans,      \* the spans started so far, in the order they were started
    current,    \* stack of the spans made current (start_as_current_span)
    prompt,     \* what prompt_provider returned
    promptEval, \* prompt_eval of sync_wrapper / eval_result of Bedrock
    response,   \* what the vendor call produced
    responseEval, \* response_result / response_eval_result
    outcome,    \* what the caller of the wrapper got: a value or an exception
    log,        \* the order of the evaluation and invocation events
    calls,      \* how often the vendor function and the HTTP evaluations ran
    clientRaised, \* some eval_* call raised to its caller
    stream,     \* StreamSpec: the vendor stream, the generator and its consumer
    acc,        \* StreamSpec: the accumulated complete_response
    setup,      \* SetupSpec: one call of instrument() / init_instrumentors()
    rsb,        \* BodySpec: one ReusableStreamingBody and its last read
    inter       \* ConcurrentSpec: two interactions and the order of their steps

orchVars == <<cfg, pc, spans, current, prompt, promptEval, response,
              responseEval, outcome, log, calls, clientRaised>>
clientVars == <<api, env, lastEval>>
streamVars == <<stream, acc>>
auxVars == <<setup, rsb, inter>>
vars == <<api, env, lastEval, cfg, pc, spans, current, prompt,
          promptEval, response, responseEval, outcome, log, calls,
          clientRaised, stream, acc, setup, rsb,
          inter>>

(***************************************************************************)
(* Bounds of the model.                                                    *)
(***************************************************************************)
\* longest validation report of an evaluation
MaxReport == 1

\* longest vendor stream
MaxChunks == 3

\* the largest choice index of a streamed chunk
MaxIndex == 1

(***************************************************************************)
(* Values.                                                                 *)
(***************************************************************************)
\* Python's None for a string-valued field
NoneStr == "None"

\* the block messages an evaluation may carry (None: no message)
Msgs == {"policy violation", NoneStr}

\* An EvaluationResult as far as the code reads it: the action, its block
\* message, the length of the metrics list, and the validation report
\* (report = 0 with validation = FALSE is a result without validation_results).
Verdicts ==
    {v \in [action : {"allow", "block"}, msg : Msgs, metrics : 0..1,
            validation : BOOLEAN, report : 0..MaxReport] :
        /\ (v.action = "allow" => v.msg = NoneStr)
        /\ (~v.validation => v.report = 0)}

\* None where an EvaluationResult is expected
NoVerdict == [action |-> "none", msg |-> NoneStr, metrics |-> 0,
              validation |-> FALSE, report |-> 0]

IsBlock(v) == v.action = "block"

\* What the HTTP exchange with the guardrail service produced: a transport
\* failure (network error or timeout), or a reply with a status and the
\* version headers.  status "eval" is a 200 with an evaluation, "malformed" a
\* 200 whose body does not parse, "validation_error" a 422 and "unexpected"
\* any other status (parsed is None).
HeaderValues == [verconstr : {"absent", "sat", "unsat", "bad"},
                 version : {"absent", "ok", "old", "bad"}]

NoHeaders == [verconstr |-> "absent", version |-> "absent"]

Replies ==
    {[net |-> n, status |-> "none", verdict |-> NoVerdict, headers |-> NoHeaders] :
        n \in {"error", "timeout"}}
    \cup
    {[net |-> "ok", status |-> "eval", verdict |-> v, headers |-> h] :
        v \in Verdicts, h \in HeaderValues}
    \cup
    {[net |-> "ok", status |-> s, verdict |-> NoVerdict, headers |-> h] :
        s \in {"malformed", "validation_error", "unexpected"}, h \in HeaderValues}

\* the replies of a service that cannot be reached
FailedReplies == {r \in Replies : r.net # "ok"}

\* A GuardrailsApi instance: kind "detailed" is guardrails/client.py (its
\* eval_* return the Response of sync_detailed), kind "plain" is secure.py
\* (its eval_* return the parsed EvaluationResult), kind "absent" is no client.
Apis ==
    {[kind |-> "absent", dataset_id |-> NoneStr, version |-> "valid",
      content_id_provider |-> "absent"]}
    \cup
    [kind : {"detailed"}, dataset_id : {NoneStr, "model-1"},
     version : {"valid", NoneStr},
     content_id_provider : {"absent", "ok", "raises"}]
    \cup
    [kind : {"plain"}, dataset_id : {"model-1"}, version : {"valid"},
     content_id_provider : {"absent"}]

\* the environment variables read by the client and by the Bedrock wrapper
Envs == [CURRENT_DATASET_ID : {NoneStr, "model-env"},
         INCLUDE_CLIENT_SIDE_GUARDRAILS_METRICS : BOOLEAN,
         GUARDRAILS_BLOCKED_MESSAGE_OVERRIDE : {NoneStr, "custom message"}]

(***************************************************************************)
(* The guardrail client, guardrails/client.py.                             *)
(***************************************************************************)
\* the result of one eval_* call: out is "none" (returned None), "response"
\* (returned the Response wrapper, whose parsed field is parsed), "result"
\* (returned the EvaluationResult itself) or "raise"
EvalOutcome(out, parsed, why, http, dataset, cid) ==
    [out |-> out, parsed |-> parsed, why |-> why, http |-> http,
     dataset |-> dataset, content_id |-> cid]

NoOutcome == EvalOutcome("none", NoVerdict, "not called", 0, NoneStr, "absent")

\* a content id that is taken from the provider even when it raised
_generate_content_id_unguarded(a) ==
    IF a.content_id_provider = "absent" THEN "absent" ELSE "id"

\* GuardrailsApi._generate_content_id: the provider's id, None without a
\* provider or when the provider raises
_generate_content_id(a) ==
    IF a.content_id_provider = "ok" THEN "id" ELSE "absent"

\* GuardrailsApi._check_version_headers on a Response: "true", "false", or
\* "raise" where SpecifierSet(...) or Version(...) rejects its argument
_check_version_headers(a, h) ==
    IF h.verconstr = "absent" THEN "false"
    ELSE IF h.verconstr = "bad" THEN "raise"
    ELSE IF a.version = NoneStr THEN "raise"
    ELSE IF h.verconstr = "unsat" THEN "false"
    ELSE IF h.version = "absent" THEN "false"
    ELSE IF h.version = "bad" THEN "raise"
    ELSE IF h.version = "ok" THEN "true"
    ELSE "false"

\* The try/except around Evaluate.sync_detailed shared by the three eval_*
\* methods.  An exception of sync_detailed leaves res = None and returns
\* None.  An exception of _check_version_headers is caught with res set, and
\* the handler calls _check_version_headers(res) again, outside any try.
detailed_call(a, reply, dataset, cid) ==
    IF reply.net # "ok" THEN
        EvalOutcome("none", NoVerdict, reply.net, 1, dataset, cid)
    ELSE IF reply.status = "malformed" THEN
        EvalOutcome("none", NoVerdict, "malformed", 1, dataset, cid)
    ELSE IF _check_version_headers(a, reply.headers) = "raise" THEN
        EvalOutcome("raise", NoVerdict, "version header", 1, dataset, cid)
    ELSE IF reply.status = "validation_error" THEN
        EvalOutcome("none", NoVerdict, "validation_error", 1, dataset, cid)
    ELSE
        EvalOutcome("response", reply.verdict, "ok", 1, dataset, cid)

\* secure.py: Evaluate.sync with no try/except around it
plain_call(a, reply) ==
    IF reply.net # "ok" THEN
        EvalOutcome("raise", NoVerdict, reply.net, 1, a.dataset_id, "absent")
    ELSE IF reply.status = "malformed" THEN
        EvalOutcome("raise", NoVerdict, "malformed", 1, a.dataset_id, "absent")
    ELSE IF reply.status = "eval" THEN
        EvalOutcome("result", reply.verdict, "ok", 1, a.dataset_id, "absent")
    ELSE
        EvalOutcome("none", NoVerdict, reply.status, 1, a.dataset_id, "absent")

\* os.environ.get("CURRENT_DATASET_ID") or self._dataset_id
env_dataset_id(a, e) ==
    IF e.CURRENT_DATASET_ID # NoneStr THEN e.CURRENT_DATASET_ID ELSE a.dataset_id

missing_dataset == EvalOutcome("none", NoVerdict, "dataset_id", 0, NoneStr, "absent")

eval_prompt(a, e, reply) ==
    IF a.kind = "plain" THEN plain_call(a, reply)
    ELSE IF a.dataset_id = NoneStr THEN missing_dataset
    ELSE detailed_call(a, reply, a.dataset_id, _generate_content_id(a))

eval_response(a, e, reply) ==
    IF a.kind = "plain" THEN plain_call(a, reply)
    ELSE IF env_dataset_id(a, e) = NoneStr THEN missing_dataset
    ELSE detailed_call(a, reply, env_dataset_id(a, e), _generate_content_id(a))

eval_chunk(a, e, reply) ==
    IF a.kind = "plain" THEN plain_call(a, reply)
    ELSE IF env_dataset_id(a, e) = NoneStr THEN missing_dataset
    ELSE detailed_call(a, reply, env_dataset_id(a, e), _generate_content_id(a))

(***************************************************************************)
(* Spans (opentelemetry): tracer.start_span starts a span whose parent is  *)
(* the current span; start_as_current_span also makes it current.  Every   *)
(* span of the wrappers is acquired in a with statement, whose exit ends   *)
(* it on return and on exception alike.                                    *)
(***************************************************************************)
\* the span on top of the stack of current spans (0: none)
Top(stack) == IF Len(stack) = 0 THEN 0 ELSE stack[Len(stack)]

Pop(stack) == SubSeq(stack, 1, Len(stack) - 1)

\* a start_span that detaches the new span from the current span
start_span_detached(sp, cur, name) ==
    Append(sp, [name |-> name, parent |-> 0, state |-> "open", events |-> 0])

\* tracer.start_span(name): a new span, child of the current span
start_span(sp, cur, name) ==
    Append(sp, [name |-> name, parent |-> Top(cur), state |-> "open", events |-> 0])

\* the spans of that name that are open
OpenSpans(sp, name) ==
    {i \in DOMAIN sp : sp[i].name = name /\ sp[i].state = "open"}

\* Span.end() of the span a with block of that name holds: the one started
\* last
span_end(sp, name) ==
    IF OpenSpans(sp, name) = {} THEN sp
    ELSE LET i == CHOOSE k \in OpenSpans(sp, name) :
                      \A j \in OpenSpans(sp, name) : j <= k
         IN [sp EXCEPT ![i].state = "closed"]

\* span.add_event("guardrails.api.validation_failure", ...) n times on the
\* span a with block of that name holds
add_events(sp, name, n) ==
    IF OpenSpans(sp, name) = {} THEN sp
    ELSE LET i == CHOOSE k \in OpenSpans(sp, name) :
                      \A j \in OpenSpans(sp, name) : j <= k
         IN [sp EXCEPT ![i].events = @ + n]

\* an exit that ends the innermost span only
with_exit_innermost(sp, ns) ==
    IF Len(ns) = 0 THEN sp ELSE span_end(sp, Head(ns))

RECURSIVE with_exit(_, _)
\* leaving the with blocks of the spans ns, innermost first
with_exit(sp, ns) ==
    IF Len(ns) = 0 THEN sp ELSE with_exit(span_end(sp, Head(ns)), Tail(ns))

(***************************************************************************)
(* Values handed back to the caller.  body is a tuple of strings, so that  *)
(* a text built from a prefix and a message is the pair of the two.        *)
(***************************************************************************)
Val(type, body, is_prompt) == [type |-> type, body |-> body, is_prompt |-> is_prompt]

RealResponse(r) == Val("response", <<r>>, FALSE)

\* response["body"] = ReusableStreamingBody(...): the vendor's response with
\* its body replaced by a body that can be read again
with_reusable_body(v) == [v EXCEPT !.body = @ \o <<"ReusableStreamingBody">>]

Exc(name) == Val("exception", <<name>>, FALSE)

NoValue == Val("none", <<>>, FALSE)

Pending == [kind |-> "pending", value |-> NoValue]

Returned(v) == [kind |-> "returned", value |-> v]

Raised(name) == [kind |-> "raised", value |-> Exc(name)]

\* a callback's result: a value, or an exception
Ok(v) == [ok |-> TRUE, value |-> v]

Fail(name) == [ok |-> FALSE, value |-> Exc(name)]

\* return blocked_message_factory(...): the factory's value, or its exception
ReturnOf(r) == IF r.ok THEN Returned(r.value) ELSE [kind |-> "raised", value |-> r.value]

\* chat_wrapper.blocked_message_factory: an f-string, None prints as "None"
chat_blocked_message_factory(v, is_prompt) ==
    Ok(Val("blocked",
           <<IF is_prompt THEN "Prompt blocked by WhyLabs: "
                          ELSE "Response blocked by WhyLabs: ", v.msg>>,
           is_prompt))

\* watsonx blocked_message_factory: str + block_message, a TypeError on None
watsonx_blocked_message_factory(v, is_prompt) ==
    IF v.msg = NoneStr THEN Fail("TypeError")
    ELSE Ok(Val("blocked",
                <<IF is_prompt THEN "Blocked by WhyLabs Secure (True)Tell: "
                               ELSE "Blocked by WhyLabs Secure (False)Tell: ", v.msg>>,
                is_prompt))

\* the Bedrock wrapper's blocked_message_factory: the f-string, unless the
\* environment names a text to use in its place
bedrock_blocked_message_factory(v, is_prompt, e) ==
    Ok(Val("blocked",
           IF e.GUARDRAILS_BLOCKED_MESSAGE_OVERRIDE # NoneStr
           THEN <<e.GUARDRAILS_BLOCKED_MESSAGE_OVERRIDE>>
           ELSE <<IF is_prompt THEN "Prompt blocked by WhyLabs: "
                               ELSE "Response blocked by WhyLabs: ", v.msg>>,
           is_prompt))

blocked_message_factory(kind, v, is_prompt, e) ==
    IF kind = "chat" THEN chat_blocked_message_factory(v, is_prompt)
    ELSE IF kind = "watsonx" THEN watsonx_blocked_message_factory(v, is_prompt)
    ELSE bedrock_blocked_message_factory(v, is_prompt, e)

(***************************************************************************)
(* The arguments of one interaction.                                       *)
(*   wrapper  sync_wrapper, or the Bedrock invoke_model wrapper            *)
(*   factory  the blocked_message_factory argument ("none": the default)   *)
(*   shape    what llm_caller returns: the pair (response, is_streaming),  *)
(*            or the bare response (completion_wrapper.call_llm)           *)
(*   stream   the vendor call is made in streaming mode                    *)
(*   handler  a streaming_response_handler is passed                       *)
(*   service  whether the guardrail service can be reached                 *)
(***************************************************************************)
SyncCfgs == [wrapper : {"sync"}, factory : {"none", "chat", "watsonx"},
             shape : {"pair", "bare"}, stream : BOOLEAN, handler : BOOLEAN,
             service : {"up", "down"}]

BedrockCfgs == [wrapper : {"bedrock"}, factory : {"bedrock"}, shape : {"pair"},
                stream : {FALSE}, handler : {FALSE}, service : {"up", "down"}]

Cfgs == SyncCfgs \cup BedrockCfgs

\* the adapters of the repository as arguments of sync_wrapper
IsChat(c) == c.wrapper = "sync" /\ c.factory = "chat" /\ c.shape = "pair" /\ ~c.handler

IsCompletion(c) == c.wrapper = "sync" /\ c.factory = "none" /\ c.shape = "bare" /\ ~c.handler

IsWatsonx(c) == c.wrapper = "sync" /\ c.factory = "watsonx" /\ c.shape = "pair" /\ ~c.handler

\* the replies the service can give in this interaction
ServiceReplies(c) == IF c.service = "down" THEN FailedReplies ELSE Replies

\* what the vendor call can produce: a response that carries text, one that
\* carries none, or an exception
VendorResults == {"text", "notext", "raise"}

\* what a prompt_provider or a response_extractor can produce
CallbackResults == {"text", NoneStr, "raise"}

NoCalls == [llm |-> 0, eval_prompt |-> 0, eval_response |-> 0]

\* a call that is retried once whenever it is made
CalledTwice(c, f) == [c EXCEPT ![f] = 2]

\* a call that is made a second time
CalledAgain(c, f) == [c EXCEPT ![f] = @ + 2]

\* one more call of f
Called(c, f) == [c EXCEPT ![f] = @ + 1]

\* the record kept of a client call
Evaluated(op, out) == [op |-> op, o |-> out]

(***************************************************************************)
(* guardrails/handlers.py: what _evaluate_prompt and _guard_response make  *)
(* of the client's answer.  Both run the client call and the copying of    *)
(* the result onto the span inside one try, whose handler returns None.    *)
(***************************************************************************)
\* _evaluate_prompt: evaluation_result.metrics[0] needs an EvaluationResult
\* with a metrics row (a Response has no metrics attribute), and the loop
\* over validation_results.report needs validation_results
_evaluate_prompt(out) ==
    IF out.out # "result" THEN NoVerdict
    ELSE IF out.parsed.metrics = 0 THEN NoVerdict
    ELSE IF ~out.parsed.validation THEN NoVerdict
    ELSE out.parsed

\* _guard_response: the same reads in the same order
_guard_response(out) ==
    IF out.out # "result" THEN NoVerdict
    ELSE IF out.parsed.metrics = 0 THEN NoVerdict
    ELSE IF ~out.parsed.validation THEN NoVerdict
    ELSE out.parsed

\* generate_event: one event for each entry of the report
generate_event(report) == report

\* the events of _evaluate_prompt: generate_event is called for a block
\* action with validation_results
prompt_events(out) ==
    IF out.out # "result" THEN 0
    ELSE IF out.parsed.metrics = 0 THEN 0
    ELSE IF IsBlock(out.parsed) /\ out.parsed.validation
    THEN generate_event(out.parsed.report)
    ELSE 0

\* the events of _guard_response: generate_event is called for a report
\* that is not empty, whatever the action
response_events(out) ==
    IF out.out # "result" THEN 0
    ELSE IF out.parsed.metrics = 0 THEN 0
    ELSE IF out.parsed.validation /\ out.parsed.report > 0
    THEN generate_event(out.parsed.report)
    ELSE 0

\* the events of the Bedrock wrapper, on the interaction span, after the
\* blocked response was built
bedrock_events(v, built) ==
    IF IsBlock(v) /\ built.ok /\ v.validation THEN generate_event(v.report) ELSE 0

(***************************************************************************)
(* The state before the wrapper is entered.                                *)
(***************************************************************************)
OrchIdle ==
    /\ pc = "call"
    /\ spans = <<>>
    /\ current = <<>>
    /\ prompt = NoneStr
    /\ promptEval = NoVerdict
    /\ response = NoneStr
    /\ responseEval = NoVerdict
    /\ outcome = Pending
    /\ log = <<>>
    /\ calls = NoCalls
    /\ clientRaised = FALSE

StreamIdle ==
    /\ stream = <<>>
    /\ acc = <<>>

SetupIdle == setup = <<>>

BodyIdle == rsb = <<>>

ConcurrentIdle == inter = <<>>

\* sync_wrapper takes any client; the Bedrock wrapper passes context and span
\* to eval_prompt, which only the client of guardrails/client.py accepts
ApiFits(c, a) ==
    /\ a.content_id_provider = "absent"
    /\ (c.wrapper = "bedrock" => a.kind # "plain")

\* INCLUDE_CLIENT_SIDE_GUARDRAILS_METRICS and GUARDRAILS_BLOCKED_MESSAGE_OVERRIDE
\* are read by the Bedrock wrapper only
EnvFits(c, e) ==
    c.wrapper = "sync" =>
        /\ ~e.INCLUDE_CLIENT_SIDE_GUARDRAILS_METRICS
        /\ e.GUARDRAILS_BLOCKED_MESSAGE_OVERRIDE = NoneStr

Init ==
    /\ cfg \in Cfgs
    /\ api \in {a \in Apis : ApiFits(cfg, a)}
    /\ env \in {e \in Envs : EnvFits(cfg, e)}
    /\ lastEval = Evaluated("none", NoOutcome)
    /\ OrchIdle
    /\ StreamIdle
    /\ SetupIdle
    /\ BodyIdle
    /\ ConcurrentIdle

(***************************************************************************)
(* sync_wrapper, guardrails/handlers.py.                                   *)
(***************************************************************************)
\* with start_span(request_type, tracer): the interaction span, made current
SyncEnter ==
    /\ pc = "call"
    /\ cfg.wrapper = "sync"
    /\ spans' = start_span(spans, current, "interaction")
    /\ current' = Append(current, Len(spans) + 1)
    /\ pc' = "prompt_provider"
    /\ UNCHANGED <<cfg, prompt, promptEval, response, responseEval, outcome,
                   log, calls, clientRaised, clientVars, streamVars, auxVars>>

\* prompt = prompt_provider(): outside any try
SyncPromptProvider ==
    /\ pc = "prompt_provider"
    /\ \E p \in CallbackResults :
        IF p = "raise"
        THEN /\ outcome' = Raised("PromptProviderError")
             /\ spans' = with_exit(spans, <<"interaction">>)
             /\ current' = Pop(current)
             /\ pc' = "done"
             /\ UNCHANGED prompt
        ELSE /\ prompt' = p
             /\ pc' = "evaluate_prompt"
             /\ UNCHANGED <<outcome, spans, current>>
    /\ UNCHANGED <<cfg, promptEval, response, responseEval, log, calls,
                   clientRaised, clientVars, streamVars, auxVars>>

\* _evaluate_prompt: if guardrails_api: with _create_guardrail_span(...)
SyncStartPromptGuard ==
    /\ pc = "evaluate_prompt"
    /\ IF api.kind = "absent"
       THEN /\ pc' = "prompt_decision"
            /\ UNCHANGED spans
       ELSE /\ spans' = start_span(spans, current, "guardrails.request")
            /\ pc' = "eval_prompt"
    /\ UNCHANGED <<cfg, current, prompt, promptEval, response, responseEval,
                   outcome, log, calls, clientRaised, clientVars, streamVars, auxVars>>

\* the try of _evaluate_prompt and the exit of its with block
SyncEvaluatePrompt ==
    /\ pc = "eval_prompt"
    /\ \E reply \in ServiceReplies(cfg) :
        LET out == eval_prompt(api, env, reply) IN
        /\ lastEval' = Evaluated("eval_prompt", out)
        /\ promptEval' = _evaluate_prompt(out)
        /\ calls' = [calls EXCEPT !.eval_prompt = @ + out.http]
        /\ clientRaised' = (clientRaised \/ out.out = "raise")
        /\ spans' = with_exit(add_events(spans, "guardrails.request", prompt_events(out)),
                              <<"guardrails.request">>)
    /\ log' = log \o <<"prompt_eval_begin", "prompt_eval_end">>
    /\ pc' = "prompt_decision"
    /\ UNCHANGED <<cfg, current, prompt, response, responseEval,
                   outcome, api, env, streamVars, auxVars>>

\* a block that ends the interaction with or without a factory
short_circuits_always(verdict, factory) == IsBlock(verdict)

\* lines 88-89 and 111-112: a block verdict ends the interaction with the
\* blocked message only if a blocked_message_factory was passed
short_circuits(verdict, factory) == IsBlock(verdict) /\ factory # "none"

\* LOGGER.warning("... blocked but no blocked message factory provided")
warned(verdict, factory, event) ==
    IF IsBlock(verdict) /\ factory = "none" THEN <<event>> ELSE <<>>

\* lines 88-98: return the blocked message, or start the completion span
SyncPromptDecision ==
    /\ pc = "prompt_decision"
    /\ IF short_circuits(promptEval, cfg.factory)
       THEN /\ outcome' = ReturnOf(blocked_message_factory(cfg.factory, promptEval, TRUE, env))
            /\ spans' = with_exit(spans, <<"interaction">>)
            /\ current' = Pop(current)
            /\ pc' = "done"
            /\ UNCHANGED log
       ELSE /\ spans' = start_span(spans, current, "completion")
            /\ pc' = "llm_caller"
            /\ log' = log \o warned(promptEval, cfg.factory, "warning_prompt_blocked")
            /\ UNCHANGED <<outcome, current>>
    /\ UNCHANGED <<cfg, prompt, promptEval, response, responseEval, calls,
                   clientRaised, clientVars, streamVars, auxVars>>

\* an unpacking that loses the streaming flag
unpack_not_streaming(shape, streaming, n) ==
    IF shape = "pair" THEN [ok |-> TRUE, is_streaming |-> FALSE, response |-> "response"]
    ELSE [ok |-> FALSE, is_streaming |-> FALSE, response |-> "ValueError"]

\* response, is_streaming = llm_caller(span): the unpacking of what the
\* closure returned.  A pair unpacks into its two parts.  A bare response
\* object does not unpack into two names (ValueError), except a bare stream
\* of exactly two chunks, which unpacks into its chunks: the first becomes
\* response and the second, an object, is a true is_streaming.
unpack(shape, streaming, n) ==
    IF shape = "pair" THEN [ok |-> TRUE, is_streaming |-> streaming,
                            response |-> IF streaming THEN "vendor stream" ELSE "response"]
    ELSE IF streaming /\ n = 2 THEN [ok |-> TRUE, is_streaming |-> TRUE,
                                     response |-> "chunk 1"]
    ELSE [ok |-> FALSE, is_streaming |-> FALSE, response |-> "ValueError"]

\* a streaming return that passes the handler by
streaming_return_raw(handler, r) ==
    IF r = "vendor stream" THEN Val("stream", <<r>>, FALSE)
    ELSE Val("chunk", <<r>>, FALSE)

\* lines 101-106: what sync_wrapper returns for a streaming response
streaming_return(handler, r) ==
    IF handler THEN Val("stream", <<"streaming_response_handler", r>>, FALSE)
    ELSE IF r = "vendor stream" THEN Val("stream", <<r>>, FALSE)
    ELSE Val("chunk", <<r>>, FALSE)

\* the event of the vendor call returning: a complete response, or a stream
\* that has yet to be consumed
llm_end(streaming) == IF streaming THEN "llm_end_stream" ELSE "llm_end"

\* lines 99-106, inside the with of the completion span: the attribute
\* setter, the vendor call through llm_caller, the unpacking, and the return
\* of a streaming response
SyncLlmCall ==
    /\ pc = "llm_caller"
    /\ calls' = Called(calls, "llm")
    /\ \E v \in VendorResults, n \in 0..MaxChunks :
        LET u == unpack(cfg.shape, cfg.stream, n) IN
        IF v = "raise"
        THEN /\ log' = log \o <<"llm_begin", "llm_raise">>
             /\ outcome' = Raised("VendorError")
             /\ spans' = with_exit(spans, <<"completion", "interaction">>)
             /\ current' = Pop(current)
             /\ pc' = "done"
             /\ UNCHANGED response
        ELSE IF ~u.ok
        THEN /\ log' = log \o <<"llm_begin", llm_end(cfg.stream)>>
             /\ outcome' = Raised(u.response)
             /\ spans' = with_exit(spans, <<"completion", "interaction">>)
             /\ current' = Pop(current)
             /\ pc' = "done"
             /\ response' = v
        ELSE IF u.is_streaming
        THEN /\ log' = log \o <<"llm_begin", llm_end(cfg.stream)>>
             /\ outcome' = Returned(streaming_return(cfg.handler, u.response))
             /\ spans' = with_exit(spans, <<"completion", "interaction">>)
             /\ current' = Pop(current)
             /\ pc' = "done"
             /\ response' = u.response
        ELSE /\ log' = log \o <<"llm_begin", llm_end(cfg.stream)>>
             /\ spans' = with_exit(spans, <<"completion">>)
             /\ pc' = "response_extractor"
             /\ response' = v
             /\ UNCHANGED <<outcome, current>>
    /\ UNCHANGED <<cfg, prompt, promptEval, responseEval, clientRaised,
                   clientVars, streamVars, auxVars>>

\* line 108 and the head of _guard_response: response_extractor(response),
\* outside any try, then if guardrails: with _create_guardrail_span(...)
SyncExtractResponse ==
    /\ pc = "response_extractor"
    /\ \E x \in CallbackResults :
        IF x = "raise"
        THEN /\ outcome' = Raised("ResponseExtractorError")
             /\ spans' = with_exit(spans, <<"interaction">>)
             /\ current' = Pop(current)
             /\ pc' = "done"
        ELSE IF api.kind = "absent"
        THEN /\ pc' = "response_decision"
             /\ UNCHANGED <<outcome, spans, current>>
        ELSE /\ spans' = start_span(spans, current, "guardrails.response")
             /\ pc' = "eval_response"
             /\ UNCHANGED <<outcome, current>>
    /\ UNCHANGED <<cfg, prompt, promptEval, response, responseEval, log, calls,
                   clientRaised, clientVars, streamVars, auxVars>>

\* the try of _guard_response and the exit of its with block
SyncGuardResponse ==
    /\ pc = "eval_response"
    /\ \E reply \in ServiceReplies(cfg) :
        LET out == eval_response(api, env, reply) IN
        /\ lastEval' = Evaluated("eval_response", out)
        /\ responseEval' = _guard_response(out)
        /\ calls' = [calls EXCEPT !.eval_response = @ + out.http]
        /\ clientRaised' = (clientRaised \/ out.out = "raise")
        /\ spans' = with_exit(add_events(spans, "guardrails.response", response_events(out)),
                              <<"guardrails.response">>)
    /\ log' = log \o <<"response_eval_begin", "response_eval_end">>
    /\ pc' = "response_decision"
    /\ UNCHANGED <<cfg, current, prompt, promptEval, response,
                   outcome, api, env, streamVars, auxVars>>

\* lines 111-117: the blocked message, or the response
SyncResponseDecision ==
    /\ pc = "response_decision"
    /\ outcome' = IF short_circuits(responseEval, cfg.factory)
                  THEN ReturnOf(blocked_message_factory(cfg.factory, responseEval, FALSE, env))
                  ELSE Returned(RealResponse(response))
    /\ log' = log \o warned(responseEval, cfg.factory, "warning_response_blocked")
    /\ spans' = with_exit(spans, <<"interaction">>)
    /\ current' = Pop(current)
    /\ pc' = "done"
    /\ UNCHANGED <<cfg, prompt, promptEval, response, responseEval,
                   calls, clientRaised, clientVars, streamVars, auxVars>>

SyncNext ==
    \/ SyncEnter
    \/ SyncPromptProvider
    \/ SyncStartPromptGuard
    \/ SyncEvaluatePrompt
    \/ SyncPromptDecision
    \/ SyncLlmCall
    \/ SyncExtractResponse
    \/ SyncGuardResponse
    \/ SyncResponseDecision

(***************************************************************************)
(* The Bedrock wrapper, instrumentation/bedrock/__init__.py.               *)
(***************************************************************************)
\* what _handle_request / _handle_response hand back: an evaluation, or the
\* exception that leaves them
Handled(v) == [ok |-> TRUE, verdict |-> v, exc |-> NoneStr]

HandleRaised(e) == [ok |-> FALSE, verdict |-> NoVerdict, exc |-> e]

\* getattr(guardrail_response, "parsed") when there is one
parsed_of(out) ==
    IF out.out \in {"response", "result"} THEN out.parsed ELSE NoVerdict

\* _handle_request after eval_prompt answered: no try around the call nor
\* around metrics[0], which is read only with
\* INCLUDE_CLIENT_SIDE_GUARDRAILS_METRICS set
_handle_request(out, e) ==
    IF out.out = "raise" THEN HandleRaised("GuardrailError")
    ELSE IF parsed_of(out) = NoVerdict THEN Handled(NoVerdict)
    ELSE IF ~e.INCLUDE_CLIENT_SIDE_GUARDRAILS_METRICS THEN Handled(parsed_of(out))
    ELSE IF parsed_of(out).metrics = 0 THEN HandleRaised("IndexError")
    ELSE Handled(parsed_of(out))

\* _handle_response after eval_response answered: metrics[0] is read before
\* the environment variable is looked at
_handle_response(out, e) ==
    IF out.out = "raise" THEN HandleRaised("GuardrailError")
    ELSE IF parsed_of(out) = NoVerdict THEN Handled(NoVerdict)
    ELSE IF parsed_of(out).metrics = 0 THEN HandleRaised("IndexError")
    ELSE Handled(parsed_of(out))

\* with tracer.start_as_current_span(name="interaction", ...)
BedrockEnter ==
    /\ pc = "call"
    /\ cfg.wrapper = "bedrock"
    /\ spans' = start_span(spans, current, "interaction")
    /\ current' = Append(current, Len(spans) + 1)
    /\ pc' = "request_body"
    /\ UNCHANGED <<cfg, prompt, promptEval, response, responseEval, outcome,
                   log, calls, clientRaised, clientVars, streamVars, auxVars>>

\* lines 179-200: the request body is parsed and the prompt taken from it by
\* vendor (None for a model that is not supported); a body that is not JSON,
\* or an empty message list, raises
BedrockExtractPrompt ==
    /\ pc = "request_body"
    /\ \E p \in CallbackResults :
        IF p = "raise"
        THEN /\ outcome' = Raised("RequestBodyError")
             /\ spans' = with_exit(spans, <<"interaction">>)
             /\ current' = Pop(current)
             /\ pc' = "done"
             /\ UNCHANGED prompt
        ELSE /\ prompt' = p
             /\ pc' = "request_guard"
             /\ UNCHANGED <<outcome, spans, current>>
    /\ UNCHANGED <<cfg, promptEval, response, responseEval, log, calls,
                   clientRaised, clientVars, streamVars, auxVars>>

\* line 202: with _create_guardrail_span(tracer), client or no client
BedrockStartRequestGuard ==
    /\ pc = "request_guard"
    /\ spans' = start_span(spans, current, "guardrails.request")
    /\ pc' = "handle_request"
    /\ UNCHANGED <<cfg, current, prompt, promptEval, response, responseEval,
                   outcome, log, calls, clientRaised, clientVars, streamVars, auxVars>>

\* line 203 and _handle_request: the evaluation is made for a prompt that is
\* not None by a client that is not None
BedrockHandleRequest ==
    /\ pc = "handle_request"
    /\ IF prompt # NoneStr /\ api.kind # "absent"
       THEN \E reply \in ServiceReplies(cfg) :
            LET out == eval_prompt(api, env, reply)
                h == _handle_request(out, env) IN
            /\ lastEval' = Evaluated("eval_prompt", out)
            /\ calls' = [calls EXCEPT !.eval_prompt = @ + out.http]
            /\ clientRaised' = (clientRaised \/ out.out = "raise")
            /\ log' = log \o <<"prompt_eval_begin", "prompt_eval_end">>
            /\ IF h.ok
               THEN /\ promptEval' = h.verdict
                    /\ spans' = with_exit(spans, <<"guardrails.request">>)
                    /\ pc' = "prompt_decision_b"
                    /\ UNCHANGED <<outcome, current>>
               ELSE /\ outcome' = Raised(h.exc)
                    /\ spans' = with_exit(spans, <<"guardrails.request", "interaction">>)
                    /\ current' = Pop(current)
                    /\ pc' = "done"
                    /\ UNCHANGED promptEval
       ELSE /\ spans' = with_exit(spans, <<"guardrails.request">>)
            /\ pc' = "prompt_decision_b"
            /\ UNCHANGED <<promptEval, outcome, current, lastEval, calls,
                           clientRaised, log>>
    /\ UNCHANGED <<cfg, prompt, response, responseEval, api, env, streamVars, auxVars>>

\* lines 265-273: the blocked response, or the completion span, made current
BedrockPromptDecision ==
    /\ pc = "prompt_decision_b"
    /\ IF IsBlock(promptEval)
       THEN /\ outcome' = ReturnOf(blocked_message_factory("bedrock", promptEval, TRUE, env))
            /\ spans' = with_exit(
                   add_events(spans, "interaction",
                       bedrock_events(promptEval,
                           blocked_message_factory("bedrock", promptEval, TRUE, env))),
                   <<"interaction">>)
            /\ current' = Pop(current)
            /\ pc' = "done"
       ELSE /\ spans' = start_span(spans, current, "completion")
            /\ current' = Append(current, Len(spans) + 1)
            /\ pc' = "invoke_model"
            /\ UNCHANGED outcome
    /\ UNCHANGED <<cfg, prompt, promptEval, response, responseEval, log, calls,
                   clientRaised, clientVars, streamVars, auxVars>>

\* lines 274-289, inside the with of the completion span: the vendor call,
\* the re-readable body, and the vendor's attribute setter, which has no
\* try of its own for cohere, anthropic, ai21 and meta
BedrockInvokeModel ==
    /\ pc = "invoke_model"
    /\ calls' = Called(calls, "llm")
    /\ \E v \in VendorResults, setter_raises \in BOOLEAN :
        IF v = "raise"
        THEN /\ log' = log \o <<"llm_begin", "llm_raise">>
             /\ outcome' = Raised("VendorError")
             /\ spans' = with_exit(spans, <<"completion", "interaction">>)
             /\ current' = <<>>
             /\ pc' = "done"
             /\ UNCHANGED response
        ELSE IF setter_raises
        THEN /\ log' = log \o <<"llm_begin", "llm_end">>
             /\ outcome' = Raised("AttributeSetterError")
             /\ spans' = with_exit(spans, <<"completion", "interaction">>)
             /\ current' = <<>>
             /\ pc' = "done"
             /\ response' = v
        ELSE /\ log' = log \o <<"llm_begin", "llm_end">>
             /\ spans' = with_exit(spans, <<"completion">>)
             /\ current' = Pop(current)
             /\ pc' = "response_guard"
             /\ response' = v
             /\ UNCHANGED outcome
    /\ UNCHANGED <<cfg, prompt, promptEval, responseEval, clientRaised,
                   clientVars, streamVars, auxVars>>

\* line 291: with _create_guardrail_span(tracer, "guardrails.response")
BedrockStartResponseGuard ==
    /\ pc = "response_guard"
    /\ spans' = start_span(spans, current, "guardrails.response")
    /\ pc' = "handle_response"
    /\ UNCHANGED <<cfg, current, prompt, promptEval, response, responseEval,
                   outcome, log, calls, clientRaised, clientVars, streamVars, auxVars>>

\* line 292 and _handle_response: the evaluation is made when the body
\* carries a response text and there is a client
BedrockHandleResponse ==
    /\ pc = "handle_response"
    /\ IF response = "text" /\ api.kind # "absent"
       THEN \E reply \in ServiceReplies(cfg) :
            LET out == eval_response(api, env, reply)
                h == _handle_response(out, env) IN
            /\ lastEval' = Evaluated("eval_response", out)
            /\ calls' = [calls EXCEPT !.eval_response = @ + out.http]
            /\ clientRaised' = (clientRaised \/ out.out = "raise")
            /\ log' = log \o <<"response_eval_begin", "response_eval_end">>
            /\ IF h.ok
               THEN /\ responseEval' = h.verdict
                    /\ spans' = with_exit(spans, <<"guardrails.response">>)
                    /\ pc' = "response_decision_b"
                    /\ UNCHANGED <<outcome, current>>
               ELSE /\ outcome' = Raised(h.exc)
                    /\ spans' = with_exit(spans, <<"guardrails.response", "interaction">>)
                    /\ current' = Pop(current)
                    /\ pc' = "done"
                    /\ UNCHANGED responseEval
       ELSE /\ spans' = with_exit(spans, <<"guardrails.response">>)
            /\ pc' = "response_decision_b"
            /\ UNCHANGED <<responseEval, outcome, current, lastEval, calls,
                           clientRaised, log>>
    /\ UNCHANGED <<cfg, prompt, promptEval, response, api, env, streamVars, auxVars>>

\* lines 293-303: the blocked response, or the response
BedrockResponseDecision ==
    /\ pc = "response_decision_b"
    /\ outcome' = IF IsBlock(responseEval)
                  THEN ReturnOf(blocked_message_factory("bedrock", responseEval, FALSE, env))
                  ELSE Returned(with_reusable_body(RealResponse(response)))
    /\ spans' = with_exit(
           add_events(spans, "interaction",
               bedrock_events(responseEval,
                   blocked_message_factory("bedrock", responseEval, FALSE, env))),
           <<"interaction">>)
    /\ current' = Pop(current)
    /\ pc' = "done"
    /\ UNCHANGED <<cfg, prompt, promptEval, response, responseEval,
                   log, calls, clientRaised, clientVars, streamVars, auxVars>>

BedrockNext ==
    \/ BedrockEnter
    \/ BedrockExtractPrompt
    \/ BedrockStartRequestGuard
    \/ BedrockHandleRequest
    \/ BedrockPromptDecision
    \/ BedrockInvokeModel
    \/ BedrockStartResponseGuard
    \/ BedrockHandleResponse
    \/ BedrockResponseDecision

Next == SyncNext \/ BedrockNext

Spec == Init /\ [][Next]_vars

(***************************************************************************)
(* async_wrapper, guardrails/handlers.py, as achat_wrapper and             *)
(* acompletion_wrapper call it.  It takes no blocked_message_factory:      *)
(* factory is the factory of the synchronous adapter of the same vendor    *)
(* call.  shape "pair" is the closure of achat_wrapper, which returns      *)
(* (True, r) for a complete response and (False, res) for a stream; shape  *)
(* "bare" is the closure of acompletion_wrapper.  The prompt is evaluated  *)
(* by the _evaluate_prompt of sync_wrapper.                                *)
(***************************************************************************)
\* a plain call of sync_wrapper
DefaultCfg == [wrapper |-> "sync", factory |-> "none", shape |-> "pair",
               stream |-> FALSE, handler |-> FALSE, service |-> "up"]

AsyncCfgs == [wrapper : {"async"}, factory : {"none", "chat"},
              shape : {"pair", "bare"}, stream : BOOLEAN, handler : {FALSE},
              service : {"up", "down"}]

AsyncInit ==
    /\ cfg \in AsyncCfgs
    /\ api \in {a \in Apis : ApiFits(cfg, a)}
    /\ env \in {e \in Envs : EnvFits(DefaultCfg, e)}
    /\ lastEval = Evaluated("none", NoOutcome)
    /\ OrchIdle
    /\ StreamIdle
    /\ SetupIdle
    /\ BodyIdle
    /\ ConcurrentIdle

\* with start_span(request_type, tracer)
AsyncEnter ==
    /\ pc = "call"
    /\ cfg.wrapper = "async"
    /\ spans' = start_span(spans, current, "interaction")
    /\ current' = Append(current, Len(spans) + 1)
    /\ pc' = "prompt_provider"
    /\ UNCHANGED <<cfg, prompt, promptEval, response, responseEval, outcome,
                   log, calls, clientRaised, clientVars, streamVars, auxVars>>

\* lines 164-170: the value of _evaluate_prompt is dropped, and the
\* completion span is started as the current span
AsyncStartCompletion ==
    /\ pc = "prompt_decision"
    /\ cfg.wrapper = "async"
    /\ spans' = start_span(spans, current, "completion")
    /\ current' = Append(current, Len(spans) + 1)
    /\ pc' = "llm_caller"
    /\ UNCHANGED <<cfg, prompt, promptEval, response, responseEval, outcome,
                   log, calls, clientRaised, clientVars, streamVars, auxVars>>

\* what await llm_caller(span) gives, which async_wrapper returns as it is
async_return(shape, streaming, v) ==
    IF shape = "pair"
    THEN IF streaming THEN Val("pair", <<"False", "_abuild_from_streaming_response">>, FALSE)
         ELSE Val("pair", <<"True", v>>, FALSE)
    ELSE IF streaming THEN Val("stream", <<"vendor stream">>, FALSE)
         ELSE RealResponse(v)

\* lines 171-179: the attribute setter, the awaited closure, and the return
\* of its value; no response is extracted and none is evaluated
AsyncLlmCall ==
    /\ pc = "llm_caller"
    /\ cfg.wrapper = "async"
    /\ calls' = Called(calls, "llm")
    /\ \E v \in VendorResults :
        IF v = "raise"
        THEN /\ log' = log \o <<"llm_begin", "llm_raise">>
             /\ outcome' = Raised("VendorError")
             /\ UNCHANGED response
        ELSE /\ log' = log \o <<"llm_begin", llm_end(cfg.stream)>>
             /\ outcome' = Returned(async_return(cfg.shape, cfg.stream, v))
             /\ response' = v
    /\ spans' = with_exit(spans, <<"completion", "interaction">>)
    /\ current' = <<>>
    /\ pc' = IF outcome'.kind = "returned" /\ cfg.shape = "pair"
             THEN "achat_wrapper" ELSE "done"
    /\ UNCHANGED <<cfg, prompt, promptEval, responseEval, clientRaised,
                   clientVars, streamVars, auxVars>>

\* chat_wrappers.py line 205: achat_wrapper awaits async_wrapper in an
\* expression statement and ends without a return statement
AchatReturn ==
    /\ pc = "achat_wrapper"
    /\ outcome' = Returned(NoValue)
    /\ pc' = "done"
    /\ UNCHANGED <<cfg, spans, current, prompt, promptEval, response, responseEval,
                   log, calls, clientRaised, clientVars, streamVars, auxVars>>

AsyncNext ==
    \/ AsyncEnter
    \/ SyncPromptProvider
    \/ SyncStartPromptGuard
    \/ SyncEvaluatePrompt
    \/ AsyncStartCompletion
    \/ AsyncLlmCall
    \/ AchatReturn

AsyncSpec == AsyncInit /\ [][AsyncNext]_vars

(***************************************************************************)
(* The suppress-instrumentation key.  chat_wrapper, completion_wrapper and *)
(* the watsonx wrapper test _SUPPRESS_INSTRUMENTATION_KEY on every call.   *)
(* The Bedrock adapter tests it in _wrap, which wraps create_client: a     *)
(* client created while the key is not set has its invoke_model replaced   *)
(* by with_instrumentation, which does not test the key; a client created  *)
(* while it is set is left as it is.                                       *)
(*   suppress  the key is set when the vendor function is called           *)
(*   patched   the function called is the adapter's wrapper                *)
(***************************************************************************)
WithSuppress(c, s, p) ==
    [wrapper |-> c.wrapper, factory |-> c.factory, shape |-> c.shape,
     stream |-> c.stream, handler |-> c.handler, service |-> c.service,
     suppress |-> s, patched |-> p]

SuppressCfgs ==
    {WithSuppress(c, s, TRUE) :
        c \in {x \in SyncCfgs : IsChat(x) \/ IsCompletion(x) \/ IsWatsonx(x)},
        s \in BOOLEAN}
    \cup {WithSuppress(c, s, p) : c \in BedrockCfgs, s \in BOOLEAN, p \in BOOLEAN}

SuppressInit ==
    /\ cfg \in SuppressCfgs
    /\ api \in {a \in Apis : ApiFits(cfg, a)}
    /\ env \in {e \in Envs : EnvFits(cfg, e)}
    /\ lastEval = Evaluated("none", NoOutcome)
    /\ OrchIdle
    /\ StreamIdle
    /\ SetupIdle
    /\ BodyIdle
    /\ ConcurrentIdle

\* the vendor function called with the original arguments, its result or
\* its exception handed on
wrapped_call(v, streaming) ==
    IF v = "raise" THEN Raised("VendorError")
    ELSE IF streaming THEN Returned(Val("stream", <<"vendor stream">>, FALSE))
    ELSE Returned(RealResponse(v))

\* return wrapped(*args, **kwargs) of chat_wrapper, completion_wrapper and
\* the watsonx wrapper when the key is set
SuppressedCall ==
    /\ pc = "call"
    /\ cfg.wrapper = "sync"
    /\ cfg.suppress
    /\ calls' = Called(calls, "llm")
    /\ \E v \in VendorResults :
        /\ outcome' = wrapped_call(v, cfg.stream)
        /\ response' = IF v = "raise" THEN response ELSE v
    /\ pc' = "done"
    /\ UNCHANGED <<cfg, spans, current, prompt, promptEval, responseEval, log,
                   clientRaised, clientVars, streamVars, auxVars>>

\* invoke_model of a Bedrock client that _wrap left as it was
UnpatchedInvokeModel ==
    /\ pc = "call"
    /\ cfg.wrapper = "bedrock"
    /\ ~cfg.patched
    /\ calls' = Called(calls, "llm")
    /\ \E v \in VendorResults :
        /\ outcome' = wrapped_call(v, cfg.stream)
        /\ response' = IF v = "raise" THEN response ELSE v
    /\ pc' = "done"
    /\ UNCHANGED <<cfg, spans, current, prompt, promptEval, responseEval, log,
                   clientRaised, clientVars, streamVars, auxVars>>

\* the key is not set: the wrapper goes on to sync_wrapper
UnsuppressedEnter ==
    /\ ~cfg.suppress
    /\ SyncEnter

\* with_instrumentation of a patched client, whatever the key
PatchedInvokeModel ==
    /\ cfg.patched
    /\ BedrockEnter

SuppressNext ==
    \/ SuppressedCall
    \/ UnpatchedInvokeModel
    \/ UnsuppressedEnter
    \/ PatchedInvokeModel
    \/ SyncPromptProvider
    \/ SyncStartPromptGuard
    \/ SyncEvaluatePrompt
    \/ SyncPromptDecision
    \/ SyncLlmCall
    \/ SyncExtractResponse
    \/ SyncGuardResponse
    \/ SyncResponseDecision
    \/ BedrockExtractPrompt
    \/ BedrockStartRequestGuard
    \/ BedrockHandleRequest
    \/ BedrockPromptDecision
    \/ BedrockInvokeModel
    \/ BedrockStartResponseGuard
    \/ BedrockHandleResponse
    \/ BedrockResponseDecision

SuppressSpec == SuppressInit /\ [][SuppressNext]_vars

(***************************************************************************)
(* Direct calls of the guardrail client.                                   *)
(***************************************************************************)
ClientInit ==
    /\ cfg = DefaultCfg
    /\ api \in {a \in Apis : a.kind # "absent"}
    /\ env \in {e \in Envs : EnvFits(DefaultCfg, e)}
    /\ lastEval = Evaluated("none", NoOutcome)
    /\ OrchIdle
    /\ StreamIdle
    /\ SetupIdle
    /\ BodyIdle
    /\ ConcurrentIdle

CallEvalPrompt ==
    /\ \E reply \in Replies : lastEval' = Evaluated("eval_prompt", eval_prompt(api, env, reply))
    /\ UNCHANGED <<api, env, orchVars, streamVars, auxVars>>

CallEvalResponse ==
    /\ \E reply \in Replies : lastEval' = Evaluated("eval_response", eval_response(api, env, reply))
    /\ UNCHANGED <<api, env, orchVars, streamVars, auxVars>>

CallEvalChunk ==
    /\ \E reply \in Replies : lastEval' = Evaluated("eval_chunk", eval_chunk(api, env, reply))
    /\ UNCHANGED <<api, env, orchVars, streamVars, auxVars>>

ClientNext == CallEvalPrompt \/ CallEvalResponse \/ CallEvalChunk

ClientSpec == ClientInit /\ [][ClientNext]_vars

(***************************************************************************)
(* The streaming generators: one vendor stream, consumed element by        *)
(* element.  Text is a sequence of tokens, so += is \o.                    *)
(***************************************************************************)
EmptyStr == ""

\* Python truthiness of an optional string
Truthy(s) == s \notin {NoneStr, EmptyStr}

\* the text of an optional string, as tokens
Tokens(s) == IF Truthy(s) THEN <<s>> ELSE <<>>

\* chat chunk choices: index, finish_reason and the delta's role and content
ChatDeltas ==
    { [role |-> "assistant", content |-> NoneStr, finish_reason |-> NoneStr],
      [role |-> NoneStr, content |-> "Hi", finish_reason |-> NoneStr],
      [role |-> NoneStr, content |-> " there", finish_reason |-> "stop"],
      [role |-> "tool", content |-> EmptyStr, finish_reason |-> "length"],
      [role |-> NoneStr, content |-> NoneStr, finish_reason |-> NoneStr] }

ChatChoices ==
    { [index |-> i, role |-> d.role, content |-> d.content,
       finish_reason |-> d.finish_reason] : i \in 0..MaxIndex, d \in ChatDeltas }

\* completion chunk choices: index, finish_reason and text
CompletionChoices ==
    [index : 0..MaxIndex, role : {NoneStr}, content : {EmptyStr, "Hi", " there"},
     finish_reason : {NoneStr, "stop"}]

Chunk(choices) == [choices |-> choices, result |-> NoneStr, stop_reason |-> NoneStr]

ChatChunks == {Chunk(<<>>)} \cup {Chunk(<<c>>) : c \in ChatChoices}

CompletionChunks == {Chunk(<<>>)} \cup {Chunk(<<c>>) : c \in CompletionChoices}

\* watsonx raw items: results[0].generated_text and results[0].stop_reason
WatsonxItems ==
    [choices : {<<>>}, result : {"Hi", " there"}, stop_reason : {"not_finished", "eos_token"}]

\* what a generator hands to its consumer: the vendor's item, or a text
Item(it) == [form |-> "item", item |-> it, text |-> NoneStr]

Text(t) == [form |-> "text", item |-> Chunk(<<>>), text |-> t]

SeqsUpTo(S, n) == UNION {[1..k -> S] : k \in 0..n}

\* complete_response = {"choices": [], "model": ""} and the watsonx locals
NewAcc == [choices |-> <<>>, generated_text |-> <<>>, stop_reason |-> EmptyStr]

NewChoice(index) ==
    [index |-> index, content |-> <<>>, role |-> EmptyStr, finish_reason |-> NoneStr]

Accumulated(a) == [ok |-> TRUE, acc |-> a, error |-> NoneStr]

AccumulateFailed(a, e) == [ok |-> FALSE, acc |-> a, error |-> e]

\* the append of a fresh choice when len(choices) <= index
ensure_choice(a, index) ==
    IF Len(a.choices) <= index
    THEN [a EXCEPT !.choices = Append(@, NewChoice(index))]
    ELSE a

\* the body of the loop of _accumulate_stream_items for one choice
accumulate_choice(a, choice) ==
    LET a1 == ensure_choice(a, choice.index)
        at == choice.index + 1
    IN  IF at > Len(a1.choices)
        THEN AccumulateFailed(a1, "IndexError")
        ELSE Accumulated([a1 EXCEPT
                 !.choices[at].finish_reason =
                     IF Truthy(choice.finish_reason) THEN choice.finish_reason ELSE @,
                 !.choices[at].content = @ \o Tokens(choice.content),
                 !.choices[at].role = IF Truthy(choice.role) THEN choice.role ELSE @])

RECURSIVE accumulate_choices(_, _)
\* for choice in item.get("choices"), stopping at the first exception
accumulate_choices(a, choices) ==
    IF Len(choices) = 0 THEN Accumulated(a)
    ELSE LET r == accumulate_choice(a, Head(choices))
         IN  IF r.ok THEN accumulate_choices(r.acc, Tail(choices)) ELSE r

_accumulate_stream_items(item, a) == accumulate_choices(a, item.choices)

\* the loop body of the completion generator: the same accumulation, on text
completion_accumulate(item, a) == accumulate_choices(a, item.choices)

\* the loop body of the watsonx generator
watsonx_accumulate(item, a) ==
    Accumulated([a EXCEPT !.generated_text = @ \o Tokens(item.result),
                          !.stop_reason = item.stop_reason])

\* yield item if raw_flag else item["results"][0]["generated_text"]
watsonx_yield(raw_flag, item) ==
    IF raw_flag = "True" THEN Item(item) ELSE Text(item.result)

StreamKinds == {"chat", "completion", "watsonx"}

RawFlags == {NoneStr, "True", "False"}

\* A generator as llm_caller creates it, inside the with block of the
\* completion span: nothing has run yet.  handed: the wrapper has returned it
\* to the caller; ends: the calls of span.end(); finalized: the runs of the
\* code after the loop, and finalized_on the state of the span it then found;
\* stop_iteration: an exhausted generator was asked for a further element.
StreamOf(kind, raw_flag, items) ==
    [kind |-> kind, raw_flag |-> raw_flag, items |-> items, pos |-> 0,
     status |-> "active", yielded |-> <<>>, span |-> "open", finalized |-> 0,
     error |-> NoneStr, handed |-> FALSE, ends |-> 0, finalized_on |-> NoneStr,
     stop_iteration |-> FALSE]

Streams ==
    {StreamOf("chat", NoneStr, s) : s \in SeqsUpTo(ChatChunks, MaxChunks)}
    \cup {StreamOf("completion", NoneStr, s) : s \in SeqsUpTo(CompletionChunks, MaxChunks)}
    \cup {StreamOf("watsonx", f, s) : f \in RawFlags, s \in SeqsUpTo(WatsonxItems, MaxChunks)}

StreamInit ==
    /\ cfg = DefaultCfg
    /\ api = [kind |-> "absent", dataset_id |-> NoneStr, version |-> NoneStr,
              content_id_provider |-> "absent"]
    /\ env = [CURRENT_DATASET_ID |-> NoneStr, INCLUDE_CLIENT_SIDE_GUARDRAILS_METRICS |-> FALSE,
              GUARDRAILS_BLOCKED_MESSAGE_OVERRIDE |-> NoneStr]
    /\ lastEval = Evaluated("none", NoOutcome)
    /\ OrchIdle
    /\ stream \in Streams
    /\ acc = NewAcc
    /\ SetupIdle
    /\ BodyIdle
    /\ ConcurrentIdle

\* one resumption of a generator that finds a next item in the vendor stream
StreamStep(kind, r, out) ==
    /\ stream.kind = kind
    /\ stream.handed
    /\ stream.status = "active"
    /\ acc' = r.acc
    /\ stream' = IF r.ok
                 THEN [stream EXCEPT !.pos = @ + 1, !.yielded = Append(@, out)]
                 ELSE [stream EXCEPT !.pos = @ + 1, !.status = "raised", !.error = r.error]
    /\ UNCHANGED <<clientVars, orchVars, auxVars>>

\* the resumption that finds the vendor stream exhausted: the code after the loop
StreamEnd ==
    /\ stream.handed
    /\ stream.status = "active"
    /\ stream.pos = Len(stream.items)
    /\ stream' = [stream EXCEPT !.status = "exhausted", !.span = "ended",
                                !.ends = @ + 1, !.finalized = @ + 1,
                                !.finalized_on = stream.span]
    /\ UNCHANGED <<clientVars, orchVars, acc, auxVars>>

\* The wrapper returns the generator: "return response" inside the with
\* block of the completion span (handlers.py, sync_wrapper and
\* async_wrapper), whose exit ends the span.
StreamHandOver ==
    /\ ~stream.handed
    /\ stream' = [stream EXCEPT !.handed = TRUE, !.span = "ended", !.ends = @ + 1]
    /\ UNCHANGED <<clientVars, orchVars, acc, auxVars>>

\* an abandonment that runs the code after the loop, as a finally would
StreamAbandonFinalizes ==
    /\ stream.handed
    /\ stream.status = "active"
    /\ stream' = [stream EXCEPT !.status = "abandoned", !.finalized = @ + 1,
                                !.finalized_on = stream.span]
    /\ UNCHANGED <<clientVars, orchVars, acc, auxVars>>

\* The caller stops consuming: the generator is closed where it is
\* suspended, and the code after its loop does not run.
StreamAbandon ==
    /\ stream.handed
    /\ stream.status = "active"
    /\ stream' = [stream EXCEPT !.status = "abandoned"]
    /\ UNCHANGED <<clientVars, orchVars, acc, auxVars>>

\* A further element is asked of a generator that has finished: it raises
\* StopIteration and runs none of its code.
StreamNextAfterEnd ==
    /\ stream.status \in {"exhausted", "raised", "abandoned"}
    /\ stream' = [stream EXCEPT !.stop_iteration = TRUE]
    /\ UNCHANGED <<clientVars, orchVars, acc, auxVars>>

NextItem == stream.items[stream.pos + 1]

ChatStreamNext ==
    /\ stream.pos < Len(stream.items)
    /\ StreamStep("chat", _accumulate_stream_items(NextItem, acc), Item(NextItem))

ChatStreamEnd ==
    /\ stream.kind = "chat"
    /\ StreamEnd

CompletionStreamNext ==
    /\ stream.pos < Len(stream.items)
    /\ StreamStep("completion", completion_accumulate(NextItem, acc), Item(NextItem))

CompletionStreamEnd ==
    /\ stream.kind = "completion"
    /\ StreamEnd

WatsonxStreamNext ==
    /\ stream.pos < Len(stream.items)
    /\ StreamStep("watsonx", watsonx_accumulate(NextItem, acc),
                  watsonx_yield(stream.raw_flag, NextItem))

WatsonxStreamEnd ==
    /\ stream.kind = "watsonx"
    /\ StreamEnd

StreamNext ==
    \/ ChatStreamNext
    \/ ChatStreamEnd
    \/ CompletionStreamNext
    \/ CompletionStreamEnd
    \/ WatsonxStreamNext
    \/ WatsonxStreamEnd
    \/ StreamHandOver
    \/ StreamAbandon
    \/ StreamNextAfterEnd

StreamSpec == StreamInit /\ [][StreamNext]_vars

(***************************************************************************)
(* Setup: instrument() of openllmtelemetry/instrument.py and of            *)
(* llm_traceguard/instrument.py, and init_instrumentors of                 *)
(* openllmtelemetry/instrumentors.py.  A setting is None or set.           *)
(***************************************************************************)
Settings == {NoneStr, "set"}

\* the arguments of instrument() that the checks read
SetupArgs == [whylabs_api_key : Settings, dataset_id : Settings,
              whylabs_guard_endpoint : Settings, whylabs_guard_api_key : Settings]

NoArgs == [whylabs_api_key |-> NoneStr, dataset_id |-> NoneStr,
           whylabs_guard_endpoint |-> NoneStr, whylabs_guard_api_key |-> NoneStr]

\* the environment variables instrument() reads
SetupEnvs == [WHYLABS_API_KEY : Settings, WHYLABS_DEFAULT_DATASET_ID : Settings,
              WHYLABS_GUARD_ENDPOINT : Settings, WHYLABS_GUARD_API_KEY : Settings]

\* the vendor SDKs importlib can find, and the adapter of each
Sdks == {"openai", "boto3", "ibm_watsonx_ai"}

SdkOf(adapter) ==
    CASE adapter = "OpenAIInstrumentor" -> "openai"
      [] adapter = "BedrockInstrumentor" -> "boto3"
      [] OTHER -> "ibm_watsonx_ai"

\* the init functions each entry point runs, in order
Instrumentors(entry) ==
    CASE entry = "instrument" -> <<"OpenAIInstrumentor", "BedrockInstrumentor">>
      [] entry = "traceguard" -> <<"OpenAIInstrumentor">>
      [] OTHER -> <<"OpenAIInstrumentor", "BedrockInstrumentor", "WatsonxInstrumentor">>

\* the argument alone, the environment not consulted
arg_only(arg, envvar) == arg

\* argument first, then the environment variable
arg_or_env(arg, envvar) == IF arg # NoneStr THEN arg ELSE envvar

SetupOf(entry, args, osenv, sdks) ==
    [entry |-> entry, args |-> args, osenv |-> osenv, sdks |-> sdks,
     pc |-> IF entry = "instrumentors" THEN "instrumentors" ELSE "call",
     provider_set |-> FALSE, secure_api |-> "unset", installed |-> {},
     skipped |-> {}, todo |-> IF entry = "instrumentors" THEN Instrumentors(entry) ELSE <<>>,
     result |-> "pending"]

\* llm_traceguard.instrument takes no key or dataset argument;
\* init_instrumentors takes the tracer and the client
Setups ==
    {SetupOf("instrument", a, e, k) : a \in SetupArgs, e \in SetupEnvs, k \in SUBSET Sdks}
    \cup {SetupOf("traceguard", NoArgs, e, k) : e \in SetupEnvs, k \in SUBSET Sdks}
    \cup {SetupOf("instrumentors", NoArgs, e, k) : e \in SetupEnvs, k \in SUBSET Sdks}

SetupInit ==
    /\ cfg = DefaultCfg
    /\ api = [kind |-> "absent", dataset_id |-> NoneStr, version |-> NoneStr,
              content_id_provider |-> "absent"]
    /\ env = [CURRENT_DATASET_ID |-> NoneStr, INCLUDE_CLIENT_SIDE_GUARDRAILS_METRICS |-> FALSE,
              GUARDRAILS_BLOCKED_MESSAGE_OVERRIDE |-> NoneStr]
    /\ lastEval = Evaluated("none", NoOutcome)
    /\ OrchIdle
    /\ StreamIdle
    /\ BodyIdle
    /\ ConcurrentIdle
    /\ setup \in Setups

\* instrument.py lines 47-79 (llm_traceguard 37-42): the key and the dataset
\* id are resolved and checked, then the guardrail client is made or not
InstrumentCheck ==
    /\ setup.pc = "call"
    /\ LET key == arg_or_env(setup.args.whylabs_api_key, setup.osenv.WHYLABS_API_KEY)
           dataset == arg_or_env(setup.args.dataset_id, setup.osenv.WHYLABS_DEFAULT_DATASET_ID)
           endpoint == arg_or_env(setup.args.whylabs_guard_endpoint,
                                  setup.osenv.WHYLABS_GUARD_ENDPOINT)
           guard_key == arg_or_env(setup.args.whylabs_guard_api_key,
                                   setup.osenv.WHYLABS_GUARD_API_KEY)
       IN  IF key = NoneStr \/ dataset = NoneStr
           THEN setup' = [setup EXCEPT !.pc = "done", !.result = "ValueError"]
           ELSE setup' = [setup EXCEPT
                    !.pc = "provider",
                    !.secure_api = IF setup.entry = "traceguard" THEN "unset"
                                   ELSE IF endpoint = NoneStr \/ guard_key = NoneStr
                                   THEN "none" ELSE "client"]
    /\ UNCHANGED <<clientVars, orchVars, streamVars, rsb, inter>>

\* instrument.py lines 81-101: the tracer provider is built and set, and
\* init_instrumentors is entered
InstrumentSetProvider ==
    /\ setup.pc = "provider"
    /\ setup' = [setup EXCEPT !.pc = "instrumentors", !.provider_set = TRUE,
                              !.todo = Instrumentors(setup.entry)]
    /\ UNCHANGED <<clientVars, orchVars, streamVars, rsb, inter>>

\* one init_*_instrumentor: the adapter is installed if find_spec finds its
\* SDK, and skipped with a log line otherwise
init_instrumentor(adapter) ==
    /\ setup.pc = "instrumentors"
    /\ Len(setup.todo) > 0
    /\ Head(setup.todo) = adapter
    /\ setup' = IF SdkOf(adapter) \in setup.sdks
                THEN [setup EXCEPT !.installed = @ \cup {adapter}, !.todo = Tail(@)]
                ELSE [setup EXCEPT !.skipped = @ \cup {adapter}, !.todo = Tail(@)]
    /\ UNCHANGED <<clientVars, orchVars, streamVars, rsb, inter>>

init_openai_instrumentor ==
    /\ Len(setup.todo) > 0
    /\ init_instrumentor("OpenAIInstrumentor")

init_bedrock_instrumentor ==
    /\ Len(setup.todo) > 0
    /\ init_instrumentor("BedrockInstrumentor")

init_watsonx_instrumentor ==
    /\ Len(setup.todo) > 0
    /\ init_instrumentor("WatsonxInstrumentor")

\* the loop of init_instrumentors is over: return tracer
InstrumentReturn ==
    /\ setup.pc = "instrumentors"
    /\ Len(setup.todo) = 0
    /\ setup' = [setup EXCEPT !.pc = "done", !.result = "tracer"]
    /\ UNCHANGED <<clientVars, orchVars, streamVars, rsb, inter>>

SetupNext ==
    \/ InstrumentCheck
    \/ InstrumentSetProvider
    \/ init_openai_instrumentor
    \/ init_bedrock_instrumentor
    \/ init_watsonx_instrumentor
    \/ InstrumentReturn

SetupSpec == SetupInit /\ [][SetupNext]_vars

(***************************************************************************)
(* Two interactions at once.  Each is a streaming chat call, whose         *)
(* generator is consumed item by item, or a complete call, whose response  *)
(* is evaluated by _guard_response.  They share the client and the         *)
(* process environment, which no interaction writes; the generator's       *)
(* complete_response and the wrapper's locals belong to the interaction.   *)
(* steps is the order in which the two were scheduled.                     *)
(***************************************************************************)
\* longest stream of a concurrent interaction
MaxConcurrentChunks == 2

Interactions == {1, 2}

ConcurrentChunks ==
    { Chunk(<<[index |-> 0, role |-> "assistant", content |-> "Hi",
               finish_reason |-> NoneStr]>>),
      Chunk(<<[index |-> 0, role |-> NoneStr, content |-> " there",
               finish_reason |-> "stop"]>>) }

\* the answers of the service to a concurrent evaluation
ConcurrentReplies ==
    {r \in Replies : /\ r.headers = NoHeaders
                     /\ r.net # "timeout"
                     /\ (r.status = "eval" /\ r.verdict.metrics = 1 /\ r.verdict.validation)
                            \/ r.status = "none"}

NoReply == [net |-> "none", status |-> "none", verdict |-> NoVerdict, headers |-> NoHeaders]

InteractionOf(mode, items, reply) ==
    [mode |-> mode, items |-> items, reply |-> reply, pos |-> 0, acc |-> NewAcc,
     yielded |-> <<>>, status |-> "active", result |-> NoVerdict, error |-> NoneStr]

ConcurrentInteractions ==
    {InteractionOf("stream", s, NoReply) : s \in SeqsUpTo(ConcurrentChunks, MaxConcurrentChunks)}
    \cup {InteractionOf("complete", <<>>, r) : r \in ConcurrentReplies}

ConcurrentInit ==
    /\ cfg = DefaultCfg
    /\ api \in {a \in Apis : a.kind # "absent" /\ a.dataset_id = "model-1"
                             /\ a.version = "valid" /\ a.content_id_provider = "absent"}
    /\ env \in {e \in Envs : EnvFits(DefaultCfg, e)}
    /\ lastEval = Evaluated("none", NoOutcome)
    /\ OrchIdle
    /\ StreamIdle
    /\ SetupIdle
    /\ BodyIdle
    /\ inter \in [a : [Interactions -> ConcurrentInteractions], steps : {<<>>}]

\* one accumulator for every generator
shared_accumulator(i) == 1

\* complete_response is a local of the generator of interaction i
own_accumulator(i) == i

\* interaction i is resumed and finds a next item
ConcurrentStreamNext ==
    \E i \in Interactions :
        LET me == inter.a[i]
            slot == own_accumulator(i)
        IN  /\ me.mode = "stream"
            /\ me.status = "active"
            /\ me.pos < Len(me.items)
            /\ LET item == me.items[me.pos + 1]
                   r == _accumulate_stream_items(item, inter.a[slot].acc)
                   stepped == [inter.a EXCEPT
                                  ![i].pos = @ + 1,
                                  ![i].yielded = IF r.ok THEN Append(@, Item(item)) ELSE @,
                                  ![i].status = IF r.ok THEN @ ELSE "raised",
                                  ![i].error = r.error]
               IN  inter' = [a |-> [stepped EXCEPT ![slot].acc = r.acc],
                             steps |-> Append(inter.steps, i)]
            /\ UNCHANGED <<clientVars, orchVars, streamVars, setup, rsb>>

\* interaction i is resumed and finds its vendor stream exhausted
ConcurrentStreamEnd ==
    \E i \in Interactions :
        /\ inter.a[i].mode = "stream"
        /\ inter.a[i].status = "active"
        /\ inter.a[i].pos = Len(inter.a[i].items)
        /\ inter' = [a |-> [inter.a EXCEPT ![i].status = "exhausted"],
                     steps |-> Append(inter.steps, i)]
        /\ UNCHANGED <<clientVars, orchVars, streamVars, setup, rsb>>

\* interaction i has its complete response evaluated: eval_response reads
\* the client and the environment
ConcurrentGuardResponse ==
    \E i \in Interactions :
        /\ inter.a[i].mode = "complete"
        /\ inter.a[i].status = "active"
        /\ LET out == eval_response(api, env, inter.a[i].reply)
           IN  inter' = [a |-> [inter.a EXCEPT ![i].status = "done",
                                               ![i].result = _guard_response(out)],
                         steps |-> Append(inter.steps, i)]
        /\ UNCHANGED <<clientVars, orchVars, streamVars, setup, rsb>>

ConcurrentNext ==
    \/ ConcurrentStreamNext
    \/ ConcurrentStreamEnd
    \/ ConcurrentGuardResponse

ConcurrentSpec == ConcurrentInit /\ [][ConcurrentNext]_vars

(***************************************************************************)
(* ReusableStreamingBody, instrumentation/bedrock/                         *)
(* reusable_streaming_body.py.  A body is a sequence of bytes; reads is    *)
(* the amounts of the reads made so far (None: read()), returned what the  *)
(* last read returned.                                                     *)
(***************************************************************************)
\* longest body
MaxBody == 3

\* largest amount asked of read(amt)
MaxAmt == 2

\* most reads of one body
MaxReads == 3

Bytes == {"a", "b"}

\* the argument of read: None (read everything) or an amount
NoAmount == [given |-> FALSE, amt |-> 0]

Amount(n) == [given |-> TRUE, amt |-> n]

\* __init__: _buffer is None and nothing is read from the raw stream yet;
\* raw_reads counts the reads of the raw stream
BodyOf(content) ==
    [content |-> content, buffered |-> FALSE, buffer |-> <<>>, cursor |-> 0,
     reads |-> <<>>, returned |-> <<>>, raw_reads |-> 0]

\* Python's b[lo:hi] for 0 <= lo <= hi
Slice(b, lo, hi) ==
    IF lo >= Len(b) THEN <<>>
    ELSE SubSeq(b, lo + 1, IF hi < Len(b) THEN hi ELSE Len(b))

\* the read of a body that is consumed as it is read, as the StreamingBody
\* of botocore is: read() moves the cursor to the end
read_consuming(b, arg) ==
    LET buffer == IF b.buffered THEN b.buffer ELSE b.content
        raw == IF b.buffered THEN b.raw_reads ELSE b.raw_reads + 1
    IN  IF ~arg.given
        THEN [b EXCEPT !.buffered = TRUE, !.buffer = buffer, !.raw_reads = raw,
                       !.reads = Append(@, arg),
                       !.cursor = Len(buffer),
                       !.returned = Slice(buffer, b.cursor, Len(buffer))]
        ELSE [b EXCEPT !.buffered = TRUE, !.buffer = buffer, !.raw_reads = raw,
                       !.reads = Append(@, arg),
                       !.cursor = @ + arg.amt,
                       !.returned = Slice(buffer, b.cursor, b.cursor + arg.amt)]

\* read(amt): the raw stream is read whole on the first call; read() returns
\* the buffer from the cursor on, read(amt) moves the cursor by amt and
\* returns the bytes it passed
read(b, arg) ==
    LET buffer == IF b.buffered THEN b.buffer ELSE b.content
        raw == IF b.buffered THEN b.raw_reads ELSE b.raw_reads + 1
    IN  IF ~arg.given
        THEN [b EXCEPT !.buffered = TRUE, !.buffer = buffer, !.raw_reads = raw,
                       !.reads = Append(@, arg),
                       !.returned = Slice(buffer, b.cursor, Len(buffer))]
        ELSE [b EXCEPT !.buffered = TRUE, !.buffer = buffer, !.raw_reads = raw,
                       !.reads = Append(@, arg),
                       !.cursor = @ + arg.amt,
                       !.returned = Slice(buffer, b.cursor, b.cursor + arg.amt)]

BodyInit ==
    /\ cfg = DefaultCfg
    /\ api = [kind |-> "absent", dataset_id |-> NoneStr, version |-> NoneStr,
              content_id_provider |-> "absent"]
    /\ env = [CURRENT_DATASET_ID |-> NoneStr, INCLUDE_CLIENT_SIDE_GUARDRAILS_METRICS |-> FALSE,
              GUARDRAILS_BLOCKED_MESSAGE_OVERRIDE |-> NoneStr]
    /\ lastEval = Evaluated("none", NoOutcome)
    /\ OrchIdle
    /\ StreamIdle
    /\ SetupIdle
    /\ ConcurrentIdle
    /\ rsb \in {BodyOf(c) : c \in SeqsUpTo(Bytes, MaxBody)}

\* body.read()
ReadAll ==
    /\ Len(rsb.reads) < MaxReads
    /\ rsb' = read(rsb, NoAmount)
    /\ UNCHANGED <<clientVars, orchVars, streamVars, setup, inter>>

\* body.read(amt)
ReadAmount ==
    /\ Len(rsb.reads) < MaxReads
    /\ \E amt \in 0..MaxAmt : rsb' = read(rsb, Amount(amt))
    /\ UNCHANGED <<clientVars, orchVars, streamVars, setup, inter>>

BodyNext == ReadAll \/ ReadAmount

BodySpec == BodyInit /\ [][BodyNext]_vars

(***************************************************************************)
(* Properties of one interaction (Spec).                                   *)
(***************************************************************************)
Done == pc = "done"

InProgress == pc \notin {"call", "done"}

AllSpansClosed == \A i \in DOMAIN spans : spans[i].state = "closed"

Logged(e) == \E i \in DOMAIN log : log[i] = e

\* every e1 in the log comes before every e2
Before(e1, e2) ==
    \A i, j \in DOMAIN log : (log[i] = e1 /\ log[j] = e2) => i < j

\* exceptions of the caller's side: the vendor call and the callbacks
EnvironmentFailures ==
    {"VendorError", "PromptProviderError", "ResponseExtractorError",
     "RequestBodyError", "AttributeSetterError"}

\* exceptions of the guardrail evaluation and of the copying of its result
GuardrailFailures == {"GuardrailError", "IndexError"}

RaisedOneOf(names) == outcome.kind = "raised" /\ outcome.value.body[1] \in names

\* C1: once prompt evaluation has returned a result whose action is block,
\* the vendor function is not called: the vendor call count stays 0.
C1_BlockedPromptNeverInvokesLlm == IsBlock(promptEval) => calls.llm = 0

\* C2: when response evaluation has returned a result whose action is block,
\* the caller gets the blocked response made by the factory with
\* is_prompt = false, and not the model output.
C2_BlockedResponseIsReturnedBlocked ==
    (Done /\ IsBlock(responseEval)) =>
        /\ outcome.kind = "returned"
        /\ outcome.value.type = "blocked"
        /\ ~outcome.value.is_prompt

\* C3: prompt evaluation has ended before the vendor call begins, and
\* response evaluation begins only after the vendor call has returned a
\* complete, non-streaming response.
C3_EvaluationOrder ==
    /\ Before("prompt_eval_begin", "prompt_eval_end")
    /\ Before("prompt_eval_end", "llm_begin")
    /\ Before("llm_begin", "response_eval_begin")
    /\ Logged("response_eval_begin") =>
          /\ Logged("llm_end")
          /\ Before("llm_end", "response_eval_begin")
          /\ ~Logged("llm_end_stream")
          /\ ~Logged("llm_raise")

C3_Witness ==
    /\ Done
    /\ outcome.kind = "returned"
    /\ calls = [llm |-> 1, eval_prompt |-> 1, eval_response |-> 1]
    /\ log = <<"prompt_eval_begin", "prompt_eval_end", "llm_begin", "llm_end",
               "response_eval_begin", "response_eval_end">>

\* C5: with the guardrail service unreachable no eval_* call raises, each
\* returns None, and an interaction whose vendor call and callbacks succeed
\* calls the vendor function once and returns the real response or stream.
C5_UnreachableServiceIsHarmless ==
    cfg.service = "down" =>
        /\ ~clientRaised
        /\ lastEval.o.out = "none"
        /\ (Done /\ ~RaisedOneOf(EnvironmentFailures)) =>
              /\ outcome.kind = "returned"
              /\ outcome.value.type \in {"response", "stream"}
              /\ calls.llm = 1

GuardSpanNames == {"guardrails.request", "guardrails.response"}

\* C6: while the call is in progress exactly one interaction span is open,
\* at most one completion span is open, and every guardrail span is a child
\* of the interaction span and is open only while that span is open.
C6_SpanStructure ==
    /\ InProgress => Cardinality(OpenSpans(spans, "interaction")) = 1
    /\ Cardinality(OpenSpans(spans, "completion")) <= 1
    /\ \A i \in DOMAIN spans :
          spans[i].name \in GuardSpanNames =>
              /\ spans[i].parent \in DOMAIN spans
              /\ spans[spans[i].parent].name = "interaction"
              /\ (spans[i].state = "open" => spans[spans[i].parent].state = "open")

C6_Witness ==
    /\ OpenSpans(spans, "guardrails.response") # {}
    /\ \E i \in DOMAIN spans : spans[i].name = "completion" /\ spans[i].state = "closed"
    /\ \E i \in DOMAIN spans : spans[i].name = "guardrails.request" /\ spans[i].state = "closed"

\* C7: when control is back at the caller, by a return, by the return of a
\* blocked response or by an exception, every span the interaction started
\* is closed.
C7_SpansClosedOnExit == Done => AllSpansClosed

C7_Witness ==
    /\ Done
    /\ outcome.kind = "raised"
    /\ Len(spans) >= 3
    /\ \E i \in DOMAIN spans : spans[i].name = "completion"

\* C8: an exception of the vendor call reaches the caller as it was raised,
\* with every span closed, after exactly one call of the vendor function and
\* with no response evaluation.
C8_VendorErrorPropagates ==
    (Done /\ Logged("llm_raise")) =>
        /\ outcome = Raised("VendorError")
        /\ AllSpansClosed
        /\ calls.llm = 1
        /\ calls.eval_response = 0
        /\ ~Logged("response_eval_begin")

C8_Witness ==
    /\ Done
    /\ Logged("llm_raise")
    /\ Logged("prompt_eval_end")
    /\ Len(spans) >= 3

\* C9: no exception of a guardrail evaluation, or of the copying of its
\* result onto the guardrail span, reaches the caller of the instrumented
\* call, through sync_wrapper or through the Bedrock wrapper.
C9_GuardrailErrorsNeverPropagate == ~RaisedOneOf(GuardrailFailures)

(***************************************************************************)
(* Properties of the guardrail client (ClientSpec).                        *)
(***************************************************************************)
\* C10: eval_prompt, eval_response and eval_chunk of guardrails/client.py
\* never raise to their caller, whatever the server answers and whatever
\* headers the answer carries.
C10_ClientNeverRaises == api.kind = "detailed" => lastEval.o.out # "raise"

(***************************************************************************)
(* Properties of the streaming generators (StreamSpec).                    *)
(***************************************************************************)
\* C4: what the generator has yielded is, element for element and in order,
\* what the vendor stream produced, and when the generator stops it has
\* yielded every element of the vendor stream.
C4_StreamPassThrough ==
    /\ Len(stream.yielded) <= Len(stream.items)
    /\ \A i \in DOMAIN stream.yielded : stream.yielded[i] = Item(stream.items[i])
    /\ stream.status \in {"exhausted", "raised"} =>
          Len(stream.yielded) = Len(stream.items)

(***************************************************************************)
(* The version check of the guardrail client (ClientSpec).                 *)
(***************************************************************************)
\* the eval_* method named op, applied to a reply
EvalBy(op, a, e, reply) ==
    CASE op = "eval_prompt" -> eval_prompt(a, e, reply)
      [] op = "eval_response" -> eval_response(a, e, reply)
      [] OTHER -> eval_chunk(a, e, reply)

\* C11: for the method that was called and for every answer of the server,
\* what the method returns is the same whatever version headers the answer
\* carries: the version check never changes or fails the call.
C11_VersionCheckIsAdvisory ==
    lastEval.op # "none" =>
        \A r \in Replies, h \in HeaderValues :
            r.net = "ok" =>
                EvalBy(lastEval.op, api, env, r)
                    = EvalBy(lastEval.op, api, env, [r EXCEPT !.headers = h])

(***************************************************************************)
(* The blocked responses (Spec).                                           *)
(***************************************************************************)
Blocked == IsBlock(promptEval) \/ IsBlock(responseEval)

\* C12: an interaction in which the prompt or the response was blocked ends
\* with a blocked response that carries the block message: it does not end
\* with an exception, nor with any other value.
C12_BlockYieldsBlockedResponse ==
    (Done /\ Blocked) =>
        /\ outcome.kind = "returned"
        /\ outcome.value.type = "blocked"
        /\ Len(outcome.value.body) = 2

\* the text the blocked response is to contain
BlockText(v, is_prompt) ==
    <<IF is_prompt THEN "Prompt blocked by WhyLabs: "
                   ELSE "Response blocked by WhyLabs: ", v.msg>>

\* C13: a blocked response returned to the caller holds the text
\* "Prompt blocked by WhyLabs: " followed by the block message of the prompt
\* evaluation, or "Response blocked by WhyLabs: " followed by that of the
\* response evaluation.
C13_BlockedTextHasPrefix ==
    (Done /\ outcome.kind = "returned" /\ outcome.value.type = "blocked") =>
        outcome.value.body =
            IF outcome.value.is_prompt THEN BlockText(promptEval, TRUE)
            ELSE BlockText(responseEval, FALSE)

(***************************************************************************)
(* The response handed back when nothing is blocked (Spec).                *)
(***************************************************************************)
NotBlocking(v) == v.action \in {"allow", "none"}

\* C14: when the vendor call has returned a complete response, neither
\* evaluation blocks, and no callback and no evaluation fails, the caller
\* gets the response the vendor call produced, as the vendor produced it.
C14_AllowedResponseIsUnmodified ==
    (/\ Done
     /\ Logged("llm_end")
     /\ NotBlocking(promptEval)
     /\ NotBlocking(responseEval)
     /\ ~RaisedOneOf(EnvironmentFailures \cup GuardrailFailures)) =>
        outcome = Returned(RealResponse(response))

(***************************************************************************)
(* Properties of the accumulation (StreamSpec).                            *)
(***************************************************************************)
\* the items the generator has taken from the vendor stream so far
Consumed == SubSeq(stream.items, 1, stream.pos)

RECURSIVE AllChoices(_)
\* the choices of a sequence of chunks, in arrival order
AllChoices(items) ==
    IF Len(items) = 0 THEN <<>> ELSE Head(items).choices \o AllChoices(Tail(items))

RECURSIVE ContentFor(_, _)
\* the content of the choices with index i, concatenated in arrival order
ContentFor(choices, i) ==
    IF Len(choices) = 0 THEN <<>>
    ELSE (IF Head(choices).index = i THEN Tokens(Head(choices).content) ELSE <<>>)
         \o ContentFor(Tail(choices), i)

RECURSIVE GeneratedText(_)
\* the generated_text of a sequence of watsonx items, concatenated
GeneratedText(items) ==
    IF Len(items) = 0 THEN <<>>
    ELSE Tokens(Head(items).result) \o GeneratedText(Tail(items))

RECURSIVE FirstOf(_, _, _, _)
\* the first non-empty value of a field among the choices with index i
FirstOf(choices, i, field, default) ==
    IF Len(choices) = 0 THEN default
    ELSE IF Head(choices).index = i /\ Truthy(Head(choices)[field])
         THEN Head(choices)[field]
         ELSE FirstOf(Tail(choices), i, field, default)

\* complete_response["choices"][i]["message"]["content"], empty without entry
AccContent(i) ==
    IF i + 1 <= Len(acc.choices) THEN acc.choices[i + 1].content ELSE <<>>

\* C15: at every point of the stream the content accumulated for each choice
\* index is the concatenation, in arrival order, of the content of the
\* chunks taken so far for that index (for watsonx: of the generated text).
C15_ContentIsConcatenation ==
    IF stream.kind = "watsonx"
    THEN acc.generated_text = GeneratedText(Consumed)
    ELSE \A i \in 0..MaxIndex : AccContent(i) = ContentFor(AllChoices(Consumed), i)

\* C16: for each choice index of a chat stream the accumulated role and
\* finish_reason are the first non-empty role and the first non-empty
\* finish_reason among the chunks taken so far for that index.
C16_FirstRoleAndFinishReasonKept ==
    (stream.kind = "chat" /\ stream.status # "raised") =>
        \A i \in 0..MaxIndex :
            i + 1 <= Len(acc.choices) =>
                /\ acc.choices[i + 1].role
                       = FirstOf(AllChoices(Consumed), i, "role", EmptyStr)
                /\ acc.choices[i + 1].finish_reason
                       = FirstOf(AllChoices(Consumed), i, "finish_reason", NoneStr)

\* C17: the code after the loop has run once when the stream is exhausted
\* and not at all otherwise: not before the last chunk was yielded, not for
\* an abandoned stream, and not again when an exhausted generator is asked
\* for a further element.
C17_FinalizeExactlyOnce ==
    /\ stream.finalized = (IF stream.status = "exhausted" THEN 1 ELSE 0)
    /\ stream.finalized = 1 =>
          /\ stream.pos = Len(stream.items)
          /\ Len(stream.yielded) = Len(stream.items)

C17_Witness ==
    /\ stream.status = "exhausted"
    /\ stream.stop_iteration
    /\ Len(stream.yielded) = MaxChunks
    /\ Len(acc.choices) > 0
    /\ stream.finalized = 1

\* C18: the completion span of a streaming call is open until the stream is
\* exhausted (so also for a stream the caller abandons), the code after the
\* loop finds it open, and span.end() is called once.
C18_StreamSpanClosedOnExhaustion ==
    /\ stream.status \in {"active", "abandoned"} => stream.span = "open"
    /\ stream.finalized_on # "ended"
    /\ stream.ends <= 1

(***************************************************************************)
(* Prompt extraction and the absent client (Spec).                         *)
(***************************************************************************)
\* the exceptions of prompt extraction
PromptFailures == {"PromptProviderError", "RequestBodyError"}

\* C19: a failure to extract the prompt does not end the interaction with
\* that failure; with no prompt no eval_prompt call is made, and the vendor
\* function is still called once unless the vendor call itself fails.
C19_PromptFailureIsNotFatal ==
    /\ ~RaisedOneOf(PromptFailures)
    /\ prompt = NoneStr => calls.eval_prompt = 0
    /\ (Done /\ prompt = NoneStr) => calls.llm = 1

\* C20: with no guardrail client no evaluation call is made, and an
\* interaction whose vendor call and callbacks succeed calls the vendor
\* function once and returns the real response or stream, never a blocked one.
C20_NoClientIsTracingOnly ==
    api.kind = "absent" =>
        /\ calls.eval_prompt = 0
        /\ calls.eval_response = 0
        /\ lastEval.op = "none"
        /\ (Done /\ ~RaisedOneOf(EnvironmentFailures)) =>
              /\ outcome.kind = "returned"
              /\ outcome.value.type \in {"response", "stream"}
              /\ calls.llm = 1

(***************************************************************************)
(* Properties of the setup (SetupSpec).                                    *)
(***************************************************************************)
\* the key or the dataset id is in neither the arguments nor the environment
MissingKeyOrDataset ==
    \/ (setup.args.whylabs_api_key = NoneStr /\ setup.osenv.WHYLABS_API_KEY = NoneStr)
    \/ (setup.args.dataset_id = NoneStr /\ setup.osenv.WHYLABS_DEFAULT_DATASET_ID = NoneStr)

IsInstrumentCall == setup.entry \in {"instrument", "traceguard"}

\* C21: instrument() ends with ValueError exactly when the API key or the
\* dataset id is missing from its arguments and from the environment, and
\* then no tracer provider was set and no instrumentor was installed.
C21_InstrumentRaisesValueError ==
    (IsInstrumentCall /\ setup.pc # "call") =>
        /\ (setup.result = "ValueError") = MissingKeyOrDataset
        /\ MissingKeyOrDataset =>
              /\ setup.pc = "done"
              /\ ~setup.provider_set
              /\ setup.installed = {}

C21_Witness ==
    /\ setup.entry = "instrument"
    /\ setup.result = "ValueError"
    /\ setup.args.whylabs_api_key = "set"
    /\ setup.osenv.WHYLABS_DEFAULT_DATASET_ID = NoneStr
    /\ setup.sdks = Sdks

\* C22: a failure while request or response fields are copied onto a span
\* never aborts the interaction: no call ends with the error of a vendor
\* attribute setter.
C22_AttributeFailureIsNotFatal ==
    Done => ~RaisedOneOf({"AttributeSetterError"})

(***************************************************************************)
(* Properties of async_wrapper (AsyncSpec).                                *)
(***************************************************************************)
\* what sync_wrapper returns for the prompt verdict of this interaction when
\* the verdict is block and the adapter has a blocked message factory
SyncBlockedPromptOutcome ==
    ReturnOf(blocked_message_factory(cfg.factory, promptEval, TRUE, env))

\* C23: async_wrapper goes through the states of sync_wrapper and ends as it
\* does: a blocked prompt ends the interaction with the blocked message and
\* without the vendor call, and a complete response is evaluated before it
\* is returned.
C23_AsyncFollowsSync ==
    (cfg.wrapper = "async" /\ Done) =>
        /\ (IsBlock(promptEval) /\ cfg.factory # "none") =>
              /\ calls.llm = 0
              /\ outcome = SyncBlockedPromptOutcome
        /\ (outcome.kind = "returned" /\ ~cfg.stream /\ api.kind # "absent"
            /\ ~IsBlock(promptEval)) => Logged("response_eval_begin")

(***************************************************************************)
(* The content id hook of the guardrail client (ClientSpec).               *)
(***************************************************************************)
\* the same client without a content id provider
WithoutProvider(a) == [a EXCEPT !.content_id_provider = "absent"]

\* C24: with a content id provider that raises, every eval_* method gives,
\* for every answer of the server, what the same client without a provider
\* gives: the request is sent without a content id and the service's result
\* is returned.
C24_ContentIdFailureIsNotFatal ==
    (api.content_id_provider = "raises" /\ lastEval.op # "none") =>
        /\ lastEval.o.content_id = "absent"
        /\ \E r \in Replies :
              lastEval.o = EvalBy(lastEval.op, WithoutProvider(api), env, r)
        /\ \A r \in Replies :
              EvalBy(lastEval.op, api, env, r)
                  = EvalBy(lastEval.op, WithoutProvider(api), env, r)

C24_Witness ==
    /\ api.content_id_provider = "raises"
    /\ lastEval.op = "eval_response"
    /\ lastEval.o.out = "response"
    /\ lastEval.o.http = 1
    /\ IsBlock(lastEval.o.parsed)
    /\ lastEval.o.content_id = "absent"

\* the vendor adapters of the repository
Adapters == {"OpenAIInstrumentor", "BedrockInstrumentor", "WatsonxInstrumentor"}

\* C25: when openllmtelemetry's instrument() has returned, each of the three
\* adapters is installed exactly when its SDK is present, whatever the other
\* SDKs; the setup never ends with an exception because an SDK is absent.
C25_AdapterInstalledIffSdkPresent ==
    (setup.entry = "instrument" /\ setup.pc = "done" /\ ~MissingKeyOrDataset) =>
        /\ setup.result = "tracer"
        /\ \A a \in Adapters : (a \in setup.installed) <=> (SdkOf(a) \in setup.sdks)

(***************************************************************************)
(* Properties of two concurrent interactions (ConcurrentSpec).             *)
(***************************************************************************)
RECURSIVE AccumulatedAlone(_, _)
\* the accumulator of a generator that consumes items with nothing else running
AccumulatedAlone(a, items) ==
    IF Len(items) = 0 THEN a
    ELSE LET r == _accumulate_stream_items(Head(items), a)
         IN  IF r.ok THEN AccumulatedAlone(r.acc, Tail(items)) ELSE r.acc

\* the verdict sync_wrapper obtains for a reply with nothing else running
GuardedAlone(reply) == _guard_response(eval_response(api, env, reply))

\* C26: however the steps of two interactions are interleaved, a stream that
\* was drained has yielded its own items and accumulated what it accumulates
\* alone, and a complete call has the verdict it obtains alone.
C26_InteractionsShareNoState ==
    inter # <<>> =>
        \A i \in Interactions :
            LET me == inter.a[i] IN
            /\ (me.mode = "stream" /\ me.status = "exhausted") =>
                  /\ me.acc = AccumulatedAlone(NewAcc, me.items)
                  /\ me.yielded = [k \in 1..Len(me.items) |-> Item(me.items[k])]
            /\ (me.mode = "complete" /\ me.status = "done") =>
                  me.result = GuardedAlone(me.reply)

C26_Witness ==
    /\ inter # <<>>
    /\ \A i \in Interactions :
          /\ inter.a[i].mode = "stream"
          /\ inter.a[i].status = "exhausted"
          /\ Len(inter.a[i].items) = 2
    /\ inter.a[1].items # inter.a[2].items
    /\ SubSeq(inter.steps, 1, 4) = <<1, 2, 2, 1>>

(***************************************************************************)
(* Properties of ReusableStreamingBody (BodySpec).                         *)
(***************************************************************************)
\* the last read was a read() without an amount
LastReadAll == Len(rsb.reads) > 0 /\ ~rsb.reads[Len(rsb.reads)].given

\* C27: after any earlier reads, with or without an amount, a read() without
\* an amount returns the complete content of the body.
C27_ReadReturnsWholeBody ==
    (rsb # <<>> /\ LastReadAll) => rsb.returned = rsb.content

(***************************************************************************)
(* Streaming mode of sync_wrapper (Spec).                                  *)
(***************************************************************************)
\* sync_wrapper has returned from its streaming branch
ReturnedStreaming ==
    /\ cfg.wrapper = "sync"
    /\ Done
    /\ Logged("llm_end_stream")
    /\ outcome.kind = "returned"

\* C28: in streaming mode sync_wrapper never evaluates the response, and
\* what it returns from its streaming branch is the handler's result on the
\* response when a handler is passed and the response itself otherwise,
\* never a blocked message.
C28_StreamingSkipsResponseGuard ==
    /\ (cfg.wrapper = "sync" /\ cfg.stream) =>
          /\ calls.eval_response = 0
          /\ ~Logged("response_eval_begin")
          /\ responseEval = NoVerdict
    /\ ReturnedStreaming =>
          /\ outcome.value.type # "blocked"
          /\ outcome.value.body = IF cfg.handler
                                  THEN <<"streaming_response_handler", response>>
                                  ELSE <<response>>

C28_Witness ==
    /\ ReturnedStreaming
    /\ cfg.handler
    /\ cfg.factory = "chat"
    /\ api.kind = "plain"
    /\ calls = [llm |-> 1, eval_prompt |-> 1, eval_response |-> 0]
    /\ promptEval.action = "allow"
    /\ outcome.value.type = "stream"

(***************************************************************************)
(* The closures the adapters pass as llm_caller (Spec).                    *)
(***************************************************************************)
\* the interaction is a call through chat_wrapper, completion_wrapper or the
\* watsonx wrapper
IsAdapter(c) == IsChat(c) \/ IsCompletion(c) \/ IsWatsonx(c)

\* C29: for every adapter the unpacking of what its closure returned into
\* response and is_streaming succeeds: no interaction of an adapter ends
\* with the ValueError of the unpacking, and a response the wrapper has
\* taken from the closure is the vendor's response or stream, not a part
\* of it.
C29_ClosureReturnsPair ==
    (IsAdapter(cfg) /\ Done /\ Logged("llm_begin") /\ ~Logged("llm_raise")) =>
        /\ ~RaisedOneOf({"ValueError"})
        /\ response # "chunk 1"

(***************************************************************************)
(* The validation failure events of sync_wrapper (Spec).                   *)
(***************************************************************************)
\* the guardrails.api.validation_failure events on the spans of that name
EventsOn(name) ==
    IF \E i \in DOMAIN spans : spans[i].name = name
    THEN spans[CHOOSE i \in DOMAIN spans : spans[i].name = name].events
    ELSE 0

\* the events the evaluation v calls for: one for each report entry of a
\* block, none otherwise
EventsFor(v) == IF IsBlock(v) THEN v.report ELSE 0

\* C30: in sync_wrapper, when the evaluation of a phase has ended, the span
\* of that phase carries exactly n validation failure events for a block
\* evaluation with n report entries and none for an allow evaluation or an
\* empty report, for the prompt and for the response alike.
C30_OneEventPerReportEntry ==
    cfg.wrapper = "sync" =>
        /\ Logged("prompt_eval_end") =>
              EventsOn("guardrails.request") = EventsFor(promptEval)
        /\ Logged("response_eval_end") =>
              EventsOn("guardrails.response") = EventsFor(responseEval)

(***************************************************************************)
(* The verdict between the client and the block decision (Spec).           *)
(***************************************************************************)
\* the client's last call, of the method op, returned a result that blocks
ClientBlocked(op) ==
    /\ lastEval.op = op
    /\ lastEval.o.out \in {"response", "result"}
    /\ IsBlock(lastEval.o.parsed)

\* C31: in sync_wrapper, when the client's eval_prompt (eval_response) has
\* returned a result whose action is block, the verdict _evaluate_prompt
\* (_guard_response) hands to the wrapper is that result, whichever of its
\* optional fields are absent.
C31_BlockVerdictIsNotLost ==
    cfg.wrapper = "sync" =>
        /\ ClientBlocked("eval_prompt") => promptEval = lastEval.o.parsed
        /\ ClientBlocked("eval_response") => responseEval = lastEval.o.parsed

(***************************************************************************)
(* sync_wrapper without a blocked message factory (Spec).                  *)
(***************************************************************************)
NoFactory == cfg.wrapper = "sync" /\ cfg.factory = "none"

\* C32: without a blocked_message_factory a block verdict does not end the
\* interaction: after a blocked prompt the warning is logged and the vendor
\* call is made, and after a blocked response the warning is logged and the
\* vendor's response is returned.
C32_NoFactoryNoShortCircuit ==
    (NoFactory /\ Done) =>
        /\ IsBlock(promptEval) =>
              /\ calls.llm = 1
              /\ Logged("warning_prompt_blocked")
              /\ Before("warning_prompt_blocked", "llm_begin")
        /\ IsBlock(responseEval) =>
              /\ Logged("warning_response_blocked")
              /\ outcome = Returned(RealResponse(response))

C32_Witness ==
    /\ NoFactory
    /\ Done
    /\ IsBlock(promptEval)
    /\ IsBlock(responseEval)
    /\ calls = [llm |-> 1, eval_prompt |-> 1, eval_response |-> 1]
    /\ outcome = Returned(RealResponse("text"))

(***************************************************************************)
(* How often an interaction calls out (Spec).                              *)
(***************************************************************************)
\* C33: on every path through sync_wrapper and through the Bedrock wrapper
\* the vendor function is invoked at most once, and the prompt and the
\* response are each sent for evaluation at most once.
C33_AtMostOneCallEach ==
    /\ calls.llm <= 1
    /\ calls.eval_prompt <= 1
    /\ calls.eval_response <= 1
    /\ calls.eval_response = 1 => calls.llm = 1

C33_Witness ==
    /\ cfg.wrapper = "bedrock"
    /\ Done
    /\ outcome.kind = "returned"
    /\ calls = [llm |-> 1, eval_prompt |-> 1, eval_response |-> 1]

(***************************************************************************)
(* What achat_wrapper returns (AsyncSpec).                                 *)
(***************************************************************************)
\* the awaited vendor call of an achat_wrapper interaction has returned
AchatVendorReturned ==
    /\ cfg.wrapper = "async"
    /\ cfg.shape = "pair"
    /\ Done
    /\ Logged("llm_begin")
    /\ ~Logged("llm_raise")

\* C34: when the awaited vendor call has returned, achat_wrapper returns to
\* its caller the vendor's response, or in streaming mode the pass-through
\* stream over it.
C34_AchatReturnsVendorResponse ==
    AchatVendorReturned =>
        /\ outcome.kind = "returned"
        /\ IF cfg.stream
           THEN outcome.value.type = "stream"
           ELSE outcome.value = RealResponse(response)

(***************************************************************************)
(* The accumulator's list of choices (StreamSpec).                         *)
(***************************************************************************)
\* C35: whatever the order of the choice indexes in the streamed chunks, the
\* buffer at list position i of the accumulated choices is the buffer of
\* choice index i, and no accumulation of a chunk raises.
C35_ChoicePositionIsIndex ==
    stream.kind \in {"chat", "completion"} =>
        /\ \A k \in DOMAIN acc.choices : acc.choices[k].index = k - 1
        /\ stream.status # "raised"

(***************************************************************************)
(* The dataset id of the evaluations of one interaction (Spec).            *)
(***************************************************************************)
\* the dataset ids with which this interaction's client sends a prompt
PromptDatasets ==
    {eval_prompt(api, env, r).dataset : r \in {x \in Replies : eval_prompt(api, env, x).http = 1}}

\* C36: when an interaction has sent its prompt and then its response for
\* evaluation, the response went with the dataset id the prompt went with,
\* whatever the process environment holds.
C36_SameDatasetForBothPhases ==
    (lastEval.op = "eval_response" /\ lastEval.o.http = 1 /\ calls.eval_prompt = 1) =>
        PromptDatasets = {lastEval.o.dataset}

\* the Bedrock wrapper has read the body, json.loads(response.get("body").read()),
\* and the caller has then made its first read
CallerFirstRead ==
    /\ rsb # <<>>
    /\ Len(rsb.reads) = 2
    /\ ~rsb.reads[1].given

\* C37: after the wrapper's read() of the re-readable body, the caller's
\* first read() returns the complete body (and a first read(amt) its first
\* amt bytes), and the raw stream has been read exactly once.
C37_CallerReadsWholeBody ==
    CallerFirstRead =>
        /\ rsb.raw_reads = 1
        /\ rsb.returned = IF rsb.reads[2].given
                          THEN Slice(rsb.content, 0, rsb.reads[2].amt)
                          ELSE rsb.content

C37_Witness ==
    /\ CallerFirstRead
    /\ ~rsb.reads[2].given
    /\ Len(rsb.content) = MaxBody
    /\ rsb.returned = rsb.content
    /\ rsb.raw_reads = 1

(***************************************************************************)
(* Calls made with the suppress-instrumentation key set (SuppressSpec).    *)
(***************************************************************************)
\* C38: a call made with the suppress-instrumentation key set, through any
\* adapter, opens no span and makes no guardrail call: the vendor function
\* is called once and its result, or its exception, is what the caller gets.
C38_SuppressedCallIsDirect ==
    (cfg.suppress /\ pc # "call") =>
        /\ spans = <<>>
        /\ calls = [llm |-> 1, eval_prompt |-> 0, eval_response |-> 0]
        /\ lastEval.op = "none"
        /\ \E v \in VendorResults : outcome = wrapped_call(v, cfg.stream)

====
